---- MODULE Spec2Model ----
(***************************************************************************)
(* State-machine model of the ci_connection tools:                         *)
(*   wait_for_connection.py  (halt decision, session server, main)         *)
(*   get_labels.py           (label client)                                *)
(*   preserve_run_state.py   (environment capture, execution state file)   *)
(*   notify_connection.py    (session client and its keep-alive thread)    *)
(* Times are counted in clock units, UnitsPerSecond of them to a second,   *)
(* so that int() of a time difference truncates as it does in the code.    *)
(* The server's clock is kept as two differences: since_last_time is       *)
(* time.time() - WaitInfo.last_time, and until_wake is what is left of the *)
(* wait loop's 60 seconds.                                                 *)
(***************************************************************************)
EXTENDS Integers, Sequences, FiniteSets, TLC

\* ------------------------------------------------------------------ bounds
MaxRequests == 4
MaxLines == 1
MaxListPieces == 3
MaxLabels == 2
UnitsPerSecond == 2
MaxKeepAlives == 2
MaxGap == 60
ClientStep == 10
MaxPersists == 2

\* --------------------------------------------------------------- constants
NONE == "None"
UNSET == "unset"

HALT_ALWAYS_LABEL == "CI Connection Halt - Always"
HALT_ON_RETRY_LABEL == "CI Connection Halt - On Retry"
HALT_ON_ERROR_LABEL == "CI Connection Halt - On Error"
UNRELATED_LABEL == "unrelated-label"
LabelNames == {HALT_ALWAYS_LABEL, HALT_ON_RETRY_LABEL, HALT_ON_ERROR_LABEL, UNRELATED_LABEL}

CONNECTION_ESTABLISHED == "connection_established"
CONNECTION_CLOSED == "connection_closed"
KEEP_ALIVE == "keep_alive"
ENV_STATE_REQUESTED == "env_state_requested"
ConnectionSignals == {CONNECTION_ESTABLISHED, CONNECTION_CLOSED, KEEP_ALIVE, ENV_STATE_REQUESTED}
\* What one line of a connection's data can be: a signal, an empty line, other text.
Lines == ConnectionSignals \cup {"", "bogus"}

total_attempts == 3
pre_connect_timeout == 10 * 60
re_connect_timeout == 15 * 60
TickSeconds == 60
KEEP_ALIVE_INTERVAL == 30
\* The two threads of notify_connection.py.
Threads == {"main", "heartbeat"}

VARS_DENYLIST == {"GITHUB_TOKEN"}
ENV_DENYLIST_VAR_NAME == "GML_ACTIONS_DEBUG_VARS_DENYLIST"
ENV_ALLOWLIST_VAR_NAME == "GML_ACTIONS_DEBUG_VARS_ALLOWLIST"

\* ---------------------------------------------------------------- variables
VARIABLES
  pc,                           \* position of the running process
  \* should_halt_for_connection's frame
  wait_regardless, wait_after_conditions_check, dispatch_input,
  explicit_halt_requested, actions_debug_enabled, event_name, labels_require_halting, halt_outcome,
  \* retrieve_labels' frame and its effects
  github_ref, label_data, labels, event_file_read, event_payload, run_attempt,
  run_attempt_env,
  \* _get_labels_via_api's frame and its effects
  headers_auth, cur_attempt, requests, req_status, req_auth, req_waited,
  pending_wait, total_wait,
  \* WaitInfo, the wait loop and the connection last handled
  since_last_time, timeout, waiting_for_close, stop_event, until_wake, msg,
  activity_seen, established_seen, received, written, writer_closed,
  \* main
  exit_kind, cleanups, rmtree_result,
  \* the process environment and the file system
  environ, state_dir,
  \* save_env_state's call and results
  call, snapshot, env_file,
  \* the execution state files, save_current_execution_info's calls and what
  \* get_execution_state read back
  exec_info, persisted, persist_count, loaded,
  \* notify_connection.py: the main thread, the keep-alive thread, _LOCK
  no_env, client_pc, heartbeat_pc, lock_holder, sock, sending, result,
  sleep_left, since_keep_alive, sent, state_info, env_source, shell

haltVars == <<wait_regardless, wait_after_conditions_check, dispatch_input,
              explicit_halt_requested,
              actions_debug_enabled, event_name, labels_require_halting, halt_outcome>>
labelVars == <<github_ref, label_data, labels, event_file_read, event_payload, run_attempt,
               run_attempt_env>>
apiVars == <<headers_auth, cur_attempt, requests, req_status, req_auth, req_waited,
             pending_wait, total_wait>>
serverVars == <<since_last_time, timeout, waiting_for_close, stop_event, until_wake, msg,
                activity_seen, established_seen, received, written, writer_closed>>
mainVars == <<exit_kind, cleanups, rmtree_result>>
worldVars == <<environ, state_dir>>
captureVars == <<call, snapshot, env_file, exec_info, persisted, persist_count, loaded>>
clientVars == <<no_env, client_pc, heartbeat_pc, lock_holder, sock, sending, result,
                sleep_left, since_keep_alive, sent, state_info, env_source, shell>>
vars == <<pc, haltVars, labelVars, apiVars, serverVars, mainVars, worldVars, captureVars, clientVars>>

\* ------------------------------------------------------------------ helpers
Max(S) == CHOOSE x \in S : \A y \in S : y <= x
B(b) == IF b THEN "True" ELSE "False"
Units(seconds) == seconds * UnitsPerSecond

\* Values an environment flag is given here, and str.lower() on them.
FlagValues == {"", "0", "1", "False", "true", "N/A", "No", "NULL", "n", "none"}
Lower(s) ==
  CASE s = "False" -> "false" [] s = "N/A" -> "n/a" [] s = "No" -> "no"
    [] s = "NULL" -> "null" [] OTHER -> s

is_true_like_env_var_CaseSensitive(var_val) ==
  var_val /= "" /\ var_val \notin {"0", "false", "n", "no", "none", "null", "n/a"}

negative_choices == {"0", "false", "n", "no", "none", "null", "n/a"}
is_true_like_env_var(var_val) ==
  LET v == Lower(var_val) IN v /= "" /\ v \notin negative_choices

EventNames == {"schedule", "workflow_dispatch", "pull_request"}
is_debug_logging_enabled_and_job_type_is_schedule_or_workflow_dispatch(debug, event) ==
  debug /\ event \in {"schedule", "workflow_dispatch"}

\* --------------------------------------------------------------- label data
\* JSON documents are kept by what the code can tell apart in them.
NoData == [kind |-> "None", names |-> {}]
Unset == [kind |-> UNSET, names |-> {}]
ListOf(S) == [kind |-> "list", names |-> S]
Malformed(k) == [kind |-> k, names |-> {}]
LabelSets == {S \in SUBSET LabelNames : Cardinality(S) <= MaxLabels}
\* The body of a 200 response.
Bodies == {Malformed(k) : k \in {"empty_body", "bad_json", "json_null", "not_list", "missing_name"}}
          \cup {ListOf(S) : S \in LabelSets}
\* The event payload file at GITHUB_EVENT_PATH.
EventPayloads == {Malformed(k) : k \in {"missing_file", "bad_json", "no_pull_request",
                                        "no_labels", "labels_null", "not_list",
                                        "missing_name"}}
                 \cup {ListOf(S) : S \in LabelSets}

\* HTTP outcomes of one urlopen: a status, or a transport error.
AuthErrors == {401, 403, 429}
Statuses == {200, 204, 401, 403, 404, 429, 500}
URLError == 0
Outcomes == Statuses \cup {URLError}

GithubRefs == {"", "refs/heads/main", "refs/pull/abc/merge", "refs/pull/12/merge"}

\* Values of GITHUB_RUN_ATTEMPT: not set, empty, not a number, "1", "2".
RunAttemptEnv == {UNSET, "", "abc", "1", "2"}

\* int(x) for those values: int(None) raises TypeError, int of a string that
\* is not a number raises ValueError.
int(x) ==
  CASE x = UNSET -> [raises |-> "TypeError", value |-> 0]
    [] x = "1" -> [raises |-> "none", value |-> 1]
    [] x = "2" -> [raises |-> "none", value |-> 2]
    [] OTHER -> [raises |-> "ValueError", value |-> 0]

\* _get_run_attempt_num, lines 43-49: only ValueError is caught.
get_run_attempt_num(raw) ==
  LET attempt == int(raw)
  IN IF attempt.raises = "ValueError" THEN [raises |-> "none", value |-> 1]
     ELSE attempt
StartDelays == {0, 60}

\* ------------------------------------------------------------- environment
\* A value is a string cut into pieces: a variable name, a comma, a blank, or
\* other text. Names and other text are runs of word characters.
Names == {"GITHUB_TOKEN", "FOO"}
ListPieces == Names \cup {",", " "}
ListStrings ==
  {s \in UNION {[1..n -> ListPieces] : n \in 0..MaxListPieces} :
     \A i \in 1..(Len(s) - 1) : ~(s[i] \in Names /\ s[i + 1] \in Names)}
EnvNames == Names \cup {ENV_DENYLIST_VAR_NAME, ENV_ALLOWLIST_VAR_NAME}
PlainValue(name) == IF name = "GITHUB_TOKEN" THEN <<"ghs_secret">> ELSE <<"bar">>
\* Process environments: each plain variable set or not, each list variable
\* unset or any string, the two list variables of MaxListPieces pieces together.
MkEnviron(P, d, a) ==
  [n \in P \cup (IF d /= <<>> THEN {ENV_DENYLIST_VAR_NAME} ELSE {})
          \cup (IF a /= <<>> THEN {ENV_ALLOWLIST_VAR_NAME} ELSE {}) |->
     IF n \in Names THEN PlainValue(n) ELSE IF n = ENV_DENYLIST_VAR_NAME THEN d ELSE a]
Environs ==
  {MkEnviron(P, da[1], da[2]) :
     P \in SUBSET Names,
     da \in {x \in ListStrings \X ListStrings : Len(x[1]) + Len(x[2]) <= MaxListPieces}}
getenv(env, name) == IF name \in DOMAIN env THEN env[name] ELSE <<>>
\* The environments of the whole-program specification.
MainEnvirons == {e \in Environs : "FOO" \in DOMAIN e /\ DOMAIN e \subseteq Names}

\* ---------------------------------------------------- environment capture
Range(f) == {f[i] : i \in DOMAIN f}
\* str.strip() on a string of pieces: blanks at both ends go.
Strip(s) ==
  LET solid == {i \in 1..Len(s) : s[i] /= " "}
  IN IF solid = {} THEN <<>>
     ELSE SubSeq(s, CHOOSE i \in solid : \A j \in solid : i <= j, Max(solid))

get_names_from_env_vars_list_PartialParse(env_var_list) ==
  LET env_vars_list == Strip(env_var_list)
  IN SelectSeq(env_vars_list, LAMBDA n : n \in Names)

\* _get_names_from_env_vars_list with raise_on_invalid_value=False.
get_names_from_env_vars_list(env_var_list) ==
  LET env_vars_list == Strip(env_var_list)
      invalid_chars == \E i \in 1..Len(env_vars_list) : env_vars_list[i] \notin Names \cup {","}
  IN IF env_vars_list = <<>> THEN <<>>
     ELSE IF invalid_chars THEN <<>>
     ELSE SelectSeq(env_vars_list, LAMBDA n : n /= ",")

add_vars_from_env(env, env_list_var_name, var_list) ==
  var_list \cup Range(get_names_from_env_vars_list(getenv(env, env_list_var_name)))

FinalDenylist_CallerOnly(env, denylist, check_env_lists) ==
  LET final_denylist == IF denylist /= {} THEN denylist ELSE VARS_DENYLIST
  IN IF check_env_lists THEN add_vars_from_env(env, ENV_DENYLIST_VAR_NAME, final_denylist)
     ELSE final_denylist

\* save_env_state, lines 164-175: the lists that are applied.
FinalDenylist(env, denylist, check_env_lists) ==
  LET final_denylist == denylist \cup VARS_DENYLIST
  IN IF check_env_lists THEN add_vars_from_env(env, ENV_DENYLIST_VAR_NAME, final_denylist)
     ELSE final_denylist

FinalAllowlist(env, allowlist, check_env_lists) ==
  IF check_env_lists THEN add_vars_from_env(env, ENV_ALLOWLIST_VAR_NAME, allowlist)
  ELSE allowlist

Kept_AllowlistWins(k, final_allowlist, final_denylist) ==
  \/ k \in final_allowlist
  \/ final_allowlist = {} /\ k \notin final_denylist

\* save_env_state, lines 178-185: whether variable k is kept.
Kept(k, final_allowlist, final_denylist) ==
  /\ ~(final_allowlist /= {} /\ k \notin final_allowlist)
  /\ ~(k \in final_denylist)

\* repr() of a str, as the f-string of line 189 applies it with !r: double
\* quotes around a string that has a single quote and no double quote, single
\* quotes otherwise with the single quotes inside escaped; backslashes are
\* doubled and a newline becomes backslash, n.
RECURSIVE ReprBody(_, _)
ReprBody(s, quote) ==
  IF s = <<>> THEN <<>>
  ELSE LET c == Head(s)
       IN (CASE c = "\\" -> <<"\\", "\\">>
             [] c = "nl" -> <<"\\", "n">>
             [] c = quote -> <<"\\", c>>
             [] OTHER -> <<c>>) \o ReprBody(Tail(s), quote)

repr(s) ==
  LET quote == IF "'" \in Range(s) /\ "\"" \notin Range(s) THEN "\"" ELSE "'"
  IN <<quote>> \o ReprBody(s, quote) \o <<quote>>

\* The names of the environment in sorted order.
KeyOrder == <<"FOO", "GITHUB_TOKEN", ENV_ALLOWLIST_VAR_NAME, ENV_DENYLIST_VAR_NAME>>

\* save_env_state: the dict it returns (vars) and the lines it writes (file).
save_env_state(env, denylist, allowlist, check_env_lists) ==
  LET final_denylist == FinalDenylist(env, denylist, check_env_lists)
      final_allowlist == FinalAllowlist(env, allowlist, check_env_lists)
      kept == {k \in DOMAIN env : Kept(k, final_allowlist, final_denylist)}
      keys == SelectSeq(KeyOrder, LAMBDA k : k \in kept)
  IN [vars |-> [k \in kept |-> env[k]],
      file |-> [i \in 1..Len(keys) |-> <<keys[i], repr(env[keys[i]])>>]]

\* ------------------------------------------------------------ label client
\* _get_label_request_headers: the Authorization header is attached iff the
\* token is set and not empty.
get_label_request_headers(env) == getenv(env, "GITHUB_TOKEN") /= <<>>

wait_before_repeat_request(attempt, total) ==
  IF attempt > total THEN 0 ELSE 2 * (2 ^ (attempt - 2))

ApiBranch_RetryUnauthenticated403(st, is_authenticated) ==
  CASE st = 200 -> "break"
    [] st = URLError -> "retry"
    [] st \in 201..299 -> "again"
    [] st = 404 -> "return_none"
    [] st \in AuthErrors /\ is_authenticated -> "downgrade"
    [] st = 401 /\ ~is_authenticated -> "return_none"
    [] OTHER -> "retry"

ApiBranch_Retry404(st, is_authenticated) ==
  CASE st = 200 -> "break"
    [] st = URLError -> "retry"
    [] st \in 201..299 -> "again"
    [] st \in AuthErrors /\ is_authenticated -> "downgrade"
    [] st \in {401, 403} /\ ~is_authenticated -> "return_none"
    [] OTHER -> "retry"

ApiBranch_NoDowngrade(st, is_authenticated) ==
  CASE st = 200 -> "break"
    [] st = URLError -> "retry"
    [] st \in 201..299 -> "again"
    [] st = 404 -> "return_none"
    [] st \in {401, 403} /\ ~is_authenticated -> "return_none"
    [] OTHER -> "retry"

\* What one iteration of the retry loop does with the outcome of urlopen.
ApiBranch(st, is_authenticated) ==
  CASE st = 200 -> "break"
    [] st = URLError -> "retry"
    [] st \in 201..299 -> "again"
    [] st = 404 -> "return_none"
    [] st \in AuthErrors /\ is_authenticated -> "downgrade"
    [] st \in {401, 403} /\ ~is_authenticated -> "return_none"
    [] OTHER -> "retry"

\* Lines 184-194: what _get_labels_via_api returns once the loop is left.
ApiReturnValue(body) ==
  IF body.kind \in {"None", "empty_body", "bad_json", "json_null"} THEN NoData ELSE body

get_labels_from_event_file_MissingKeyIsNone(payload) ==
  CASE payload.kind \in {"missing_file", "bad_json", "labels_null"} -> NoData
    [] payload.kind \in {"no_pull_request", "no_labels"} -> NoData
    [] OTHER -> payload

\* _get_labels_from_event_file, lines 197-213: a file that cannot be opened or
\* parsed, or whose labels are null, gives None; an object with no
\* pull_request key, or whose pull_request has no labels key, gives the
\* defaults of the two get calls, an empty list.
get_labels_from_event_file(payload) ==
  CASE payload.kind \in {"missing_file", "bad_json", "labels_null"} -> NoData
    [] payload.kind \in {"no_pull_request", "no_labels"} -> ListOf({})
    [] OTHER -> payload

extract_labels(data) ==
  CASE data.kind = "list" -> ListOf(data.names)
    [] data.kind = "None" -> ListOf({})
    [] OTHER -> NoData

ClearApiFrame ==
  /\ headers_auth' = FALSE /\ cur_attempt' = 1 /\ req_status' = URLError
  /\ req_auth' = FALSE /\ req_waited' = 0 /\ pending_wait' = 0 /\ total_wait' = 0

RetrieveLabelsStart_MalformedRefRaises ==
  /\ pc = "retrieve_labels"
  /\ dispatch_input' = UNSET
  /\ \E ref \in GithubRefs :
       /\ github_ref' = ref
       /\ CASE ref = "" ->
                 /\ pc' = "decided" /\ halt_outcome' = "raise"
                 /\ UNCHANGED <<labels, headers_auth>>
            [] ref = "refs/heads/main" ->
                 /\ pc' = "retrieved" /\ labels' = ListOf({})
                 /\ UNCHANGED <<halt_outcome, headers_auth>>
            [] ref = "refs/pull/abc/merge" ->
                 /\ pc' = "decided" /\ halt_outcome' = "raise"
                 /\ UNCHANGED <<labels, headers_auth>>
            [] OTHER ->
                 /\ pc' = "api_loop" /\ headers_auth' = get_label_request_headers(environ)
                 /\ UNCHANGED <<halt_outcome, labels>>
  /\ UNCHANGED <<wait_regardless, wait_after_conditions_check, explicit_halt_requested,
                 actions_debug_enabled, event_name, labels_require_halting,
                 label_data, event_file_read, event_payload, run_attempt,
                 run_attempt_env,
                 cur_attempt, requests, req_status, req_auth, req_waited, pending_wait,
                 total_wait, serverVars, mainVars, worldVars, captureVars, clientVars>>

\* retrieve_labels, lines 238-259, up to the call of _get_labels_via_api.
RetrieveLabelsStart ==
  /\ pc = "retrieve_labels"
  /\ dispatch_input' = UNSET
  /\ \E ref \in GithubRefs :
       /\ github_ref' = ref
       /\ CASE ref = "" ->
                 /\ pc' = "decided" /\ halt_outcome' = "raise"
                 /\ UNCHANGED <<labels, headers_auth>>
            [] ref = "refs/heads/main" ->
                 /\ pc' = "retrieved" /\ labels' = ListOf({})
                 /\ UNCHANGED <<halt_outcome, headers_auth>>
            [] ref = "refs/pull/abc/merge" ->
                 /\ pc' = "retrieved" /\ labels' = NoData
                 /\ UNCHANGED <<halt_outcome, headers_auth>>
            [] OTHER ->
                 /\ pc' = "api_loop" /\ headers_auth' = get_label_request_headers(environ)
                 /\ UNCHANGED <<halt_outcome, labels>>
  /\ UNCHANGED <<wait_regardless, wait_after_conditions_check, explicit_halt_requested,
                 actions_debug_enabled, event_name, labels_require_halting,
                 label_data, event_file_read, event_payload, run_attempt,
                 run_attempt_env,
                 cur_attempt, requests, req_status, req_auth, req_waited, pending_wait,
                 total_wait, serverVars, mainVars, worldVars, captureVars, clientVars>>

ApiAttempt_RebuildsHeaders ==
  /\ pc = "api_loop"
  /\ cur_attempt <= total_attempts
  /\ requests < MaxRequests
  /\ \E st \in Outcomes, body \in Bodies :
       LET is_authenticated == headers_auth
           branch == ApiBranch(st, is_authenticated)
           next_attempt == IF branch \in {"downgrade", "retry"} THEN cur_attempt + 1
                           ELSE cur_attempt
           wait == IF branch = "retry"
                   THEN wait_before_repeat_request(next_attempt, total_attempts) ELSE 0
           leaves == branch \in {"break", "return_none"} \/ next_attempt > total_attempts
       IN /\ requests' = requests + 1
          /\ req_status' = st
          /\ req_auth' = is_authenticated
          /\ req_waited' = pending_wait
          /\ headers_auth' = IF branch = "downgrade" THEN FALSE
                            ELSE get_label_request_headers(environ)
          /\ cur_attempt' = next_attempt
          /\ pending_wait' = wait
          /\ total_wait' = total_wait + wait
          /\ pc' = IF leaves THEN "api_returned" ELSE "api_loop"
          /\ label_data' = IF branch = "break" THEN ApiReturnValue(body)
                           ELSE IF leaves THEN NoData ELSE label_data
  /\ UNCHANGED <<haltVars, github_ref, labels, event_file_read, event_payload,
                 run_attempt,
                 run_attempt_env,
                 serverVars, mainVars, worldVars, captureVars, clientVars>>

\* One iteration of the retry loop of _get_labels_via_api (lines 87-182), and,
\* when it leaves the loop, the rest of the function (lines 184-194).
ApiAttempt ==
  /\ pc = "api_loop"
  /\ cur_attempt <= total_attempts
  /\ requests < MaxRequests
  /\ \E st \in Outcomes, body \in Bodies :
       LET is_authenticated == headers_auth
           branch == ApiBranch(st, is_authenticated)
           next_attempt == IF branch \in {"downgrade", "retry"} THEN cur_attempt + 1
                           ELSE cur_attempt
           wait == IF branch = "retry"
                   THEN wait_before_repeat_request(next_attempt, total_attempts) ELSE 0
           leaves == branch \in {"break", "return_none"} \/ next_attempt > total_attempts
       IN /\ requests' = requests + 1
          /\ req_status' = st
          /\ req_auth' = is_authenticated
          /\ req_waited' = pending_wait
          /\ headers_auth' = IF branch = "downgrade" THEN FALSE ELSE headers_auth
          /\ cur_attempt' = next_attempt
          /\ pending_wait' = wait
          /\ total_wait' = total_wait + wait
          /\ pc' = IF leaves THEN "api_returned" ELSE "api_loop"
          /\ label_data' = IF branch = "break" THEN ApiReturnValue(body)
                           ELSE IF leaves THEN NoData ELSE label_data
  /\ UNCHANGED <<haltVars, github_ref, labels, event_file_read, event_payload,
                 run_attempt,
                 run_attempt_env,
                 serverVars, mainVars, worldVars, captureVars, clientVars>>

\* retrieve_labels, lines 261-278: the fallback and the extraction.
RetrieveLabelsFinish ==
  /\ pc = "api_returned"
  /\ \E payload \in EventPayloads :
       LET fallback == label_data.kind = "None"
           data == IF fallback THEN get_labels_from_event_file(payload) ELSE label_data
       IN /\ event_file_read' = fallback
          /\ event_payload' = IF fallback THEN payload.kind ELSE UNSET
          /\ labels' = IF data.kind = "None" THEN NoData ELSE extract_labels(data)
  /\ pc' = "retrieved"
  /\ label_data' = Unset
  /\ ClearApiFrame
  /\ UNCHANGED <<haltVars, github_ref, run_attempt, run_attempt_env, requests,
                 serverVars, mainVars, worldVars, captureVars, clientVars>>

\* ----------------------------------------------------------- halt decision
check_if_labels_require_connection_halting_AnyLabel(lbls, state_file_exists, attempt) ==
  CASE lbls.kind = "None" -> NONE
    [] lbls.names /= {} -> "True"
    [] OTHER -> "False"

check_if_labels_require_connection_halting_RetryOnFirst(lbls, state_file_exists, attempt) ==
  CASE lbls.kind = "None" -> NONE
    [] HALT_ON_ERROR_LABEL \in lbls.names /\ state_file_exists -> "True"
    [] HALT_ALWAYS_LABEL \in lbls.names -> "True"
    [] attempt >= 1 /\ HALT_ON_RETRY_LABEL \in lbls.names -> "True"
    [] OTHER -> "False"

\* check_if_labels_require_connection_halting, lines 96-138, given the labels
\* retrieve_labels returned.
check_if_labels_require_connection_halting(lbls, state_file_exists, attempt) ==
  CASE lbls.kind = "None" -> NONE
    [] HALT_ON_ERROR_LABEL \in lbls.names /\ state_file_exists -> "True"
    [] HALT_ALWAYS_LABEL \in lbls.names -> "True"
    [] attempt > 1 /\ HALT_ON_RETRY_LABEL \in lbls.names -> "True"
    [] OTHER -> "False"

HaltAfterLabels_NoWaitAfter(lrh, wait_after) ==
  CASE lrh = "True" -> "True"
    [] lrh = NONE /\ ~wait_after -> "exit1"
    [] lrh = NONE /\ wait_after -> "True"
    [] OTHER -> "False"

HaltAfterLabels_AlwaysFatal(lrh, wait_after) ==
  CASE lrh = "True" -> "True"
    [] lrh = NONE -> "exit1"
    [] wait_after -> "True"
    [] OTHER -> "False"

HaltAfterLabels_FailOpen(lrh, wait_after) ==
  CASE lrh = "True" -> "True"
    [] wait_after -> "True"
    [] OTHER -> "False"

HaltAfterLabels_FlagNeedsLabels(lrh, wait_after) ==
  CASE lrh = "True" -> "True"
    [] lrh = NONE /\ ~wait_after -> "exit1"
    [] lrh = "False" /\ wait_after -> "True"
    [] OTHER -> "False"

\* should_halt_for_connection, lines 173-190.
HaltAfterLabels(lrh, wait_after) ==
  CASE lrh = "True" -> "True"
    [] lrh = NONE /\ ~wait_after -> "exit1"
    [] wait_after -> "True"
    [] OTHER -> "False"

EarlierTrigger_CodeOnly(by_code, by_input, by_debug) == by_code

\* should_halt_for_connection, lines 153-167: whether a trigger that needs no
\* labels returns True.
EarlierTrigger(by_code, by_input, by_debug) == by_code \/ by_input \/ by_debug

\* should_halt_for_connection, lines 148-167: the triggers that need no labels.
\* dispatch_input is the value _is_true_like_env_var read for
\* HALT_DISPATCH_INPUT, kept until the next call.
ShouldHaltStart ==
  /\ pc = "main"
  /\ \E flag \in FlagValues, dispatch \in FlagValues, runner_debug \in FlagValues,
        event \in EventNames :
       LET wait_after == IF ~wait_after_conditions_check THEN is_true_like_env_var(flag)
                         ELSE wait_after_conditions_check
           by_code == ~wait_after /\ wait_regardless
           by_input == is_true_like_env_var(dispatch)
           debug == is_true_like_env_var(runner_debug)
           by_debug == is_debug_logging_enabled_and_job_type_is_schedule_or_workflow_dispatch(
                         debug, event)
       IN /\ wait_after_conditions_check' = wait_after
          /\ dispatch_input' = IF by_code THEN UNSET ELSE dispatch
          /\ explicit_halt_requested' = IF by_code THEN UNSET ELSE B(by_input)
          /\ actions_debug_enabled' = IF by_code \/ by_input THEN UNSET ELSE B(debug)
          /\ event_name' = IF by_code \/ by_input THEN UNSET ELSE event
          /\ IF EarlierTrigger(by_code, by_input, by_debug)
             THEN pc' = "decided" /\ halt_outcome' = "True"
             ELSE pc' = "retrieve_labels" /\ halt_outcome' = UNSET
  /\ UNCHANGED <<wait_regardless, labels_require_halting, labelVars, apiVars,
                 serverVars, mainVars, worldVars, captureVars, clientVars>>

\* check_if_labels_require_connection_halting once retrieve_labels has returned,
\* and the rest of should_halt_for_connection. _RUN_ATTEMPT is what the import
\* made of GITHUB_RUN_ATTEMPT; the variable's value is drawn here, where it is
\* first used, among the values the import did not fail on.
CheckLabels ==
  /\ pc = "retrieved"
  /\ \E raw \in {v \in RunAttemptEnv : get_run_attempt_num(v).raises = "none"} :
       LET attempt == get_run_attempt_num(raw).value
           lrh == check_if_labels_require_connection_halting(
                    labels, state_dir = "with_state", attempt)
       IN /\ run_attempt' = attempt
          /\ run_attempt_env' = raw
          /\ labels_require_halting' = lrh
          /\ halt_outcome' = HaltAfterLabels(lrh, wait_after_conditions_check)
  /\ pc' = "decided"
  /\ UNCHANGED <<wait_regardless, wait_after_conditions_check, dispatch_input,
                 explicit_halt_requested,
                 actions_debug_enabled, event_name, github_ref, label_data, labels,
                 event_file_read, event_payload, apiVars, serverVars, mainVars, worldVars,
                 captureVars, clientVars>>

\* ------------------------------------------------------------------- main
ClearHaltFrames ==
  /\ wait_regardless' = FALSE /\ wait_after_conditions_check' = FALSE
  /\ dispatch_input' = UNSET
  /\ explicit_halt_requested' = UNSET /\ actions_debug_enabled' = UNSET
  /\ event_name' = UNSET /\ labels_require_halting' = UNSET /\ halt_outcome' = UNSET
  /\ github_ref' = UNSET /\ label_data' = Unset /\ labels' = Unset
  /\ event_file_read' = FALSE /\ event_payload' = UNSET
  /\ run_attempt' = 0 /\ run_attempt_env' = UNSET
  /\ requests' = 0
  /\ ClearApiFrame

\* main, lines 321-328: should_halt_for_connection has returned, called
\* sys.exit(1) or raised.
MainAfterHalt ==
  /\ pc = "decided"
  /\ CASE halt_outcome = "True" -> pc' = "start_server" /\ UNCHANGED exit_kind
       [] halt_outcome = "False" -> pc' = "finally" /\ exit_kind' = "return"
       [] halt_outcome = "exit1" -> pc' = "finally" /\ exit_kind' = "exit1"
       [] OTHER -> pc' = "finally" /\ exit_kind' = "raise"
  /\ ClearHaltFrames
  /\ UNCHANGED <<serverVars, cleanups, rmtree_result, worldVars, captureVars, clientVars>>

Finally_OnlyOnReturn ==
  /\ pc = "finally"
  /\ IF exit_kind /= "return"
     THEN UNCHANGED <<cleanups, rmtree_result, state_dir>>
     ELSE /\ cleanups' = cleanups + 1
          /\ IF state_dir = "missing"
             THEN rmtree_result' = "FileNotFoundError" /\ UNCHANGED state_dir
             ELSE rmtree_result' = "removed" /\ state_dir' = "missing"
  /\ pc' = "exited"
  /\ UNCHANGED <<haltVars, labelVars, apiVars, serverVars, exit_kind, environ, captureVars, clientVars>>

\* main, lines 330-335: the finally clause.
Finally ==
  /\ pc = "finally"
  /\ cleanups' = cleanups + 1
  /\ IF state_dir = "missing"
     THEN rmtree_result' = "FileNotFoundError" /\ UNCHANGED state_dir
     ELSE rmtree_result' = "removed" /\ state_dir' = "missing"
  /\ pc' = "exited"
  /\ UNCHANGED <<haltVars, labelVars, apiVars, serverVars, exit_kind, environ, captureVars, clientVars>>

\* ---------------------------------------------------------- session server
WaitInfo == [since_last_time |-> since_last_time, timeout |-> timeout,
             waiting_for_close |-> waiting_for_close, stop_event |-> stop_event,
             activity_seen |-> activity_seen, written |-> <<>>]

Dispatch_NoStopEvent(w, message) ==
  CASE message = KEEP_ALIVE ->
         [w EXCEPT !.since_last_time = 0, !.activity_seen = TRUE]
    [] message = CONNECTION_CLOSED ->
         [w EXCEPT !.waiting_for_close = TRUE]
    [] message = CONNECTION_ESTABLISHED ->
         [w EXCEPT !.since_last_time = 0, !.timeout = re_connect_timeout,
                   !.activity_seen = TRUE]
    [] message = ENV_STATE_REQUESTED ->
         [w EXCEPT !.written = Append(@, save_env_state(environ, VARS_DENYLIST, {}, TRUE).vars)]
    [] OTHER -> w

Dispatch_FixedDenylistOnly(w, message) ==
  CASE message = KEEP_ALIVE ->
         [w EXCEPT !.since_last_time = 0, !.activity_seen = TRUE]
    [] message = CONNECTION_CLOSED ->
         [w EXCEPT !.waiting_for_close = TRUE, !.stop_event = TRUE]
    [] message = CONNECTION_ESTABLISHED ->
         [w EXCEPT !.since_last_time = 0, !.timeout = re_connect_timeout,
                   !.activity_seen = TRUE]
    [] message = ENV_STATE_REQUESTED ->
         [w EXCEPT !.written = Append(@, save_env_state(environ, VARS_DENYLIST, {}, FALSE).vars)]
    [] OTHER -> w

Dispatch_AnyMessageRestartsClock(w, message) ==
  CASE message = KEEP_ALIVE ->
         [w EXCEPT !.since_last_time = 0, !.activity_seen = TRUE]
    [] message = CONNECTION_CLOSED ->
         [w EXCEPT !.waiting_for_close = TRUE, !.stop_event = TRUE]
    [] message = CONNECTION_ESTABLISHED ->
         [w EXCEPT !.since_last_time = 0, !.timeout = re_connect_timeout,
                   !.activity_seen = TRUE]
    [] message = ENV_STATE_REQUESTED ->
         [w EXCEPT !.written = Append(@, save_env_state(environ, VARS_DENYLIST, {}, TRUE).vars)]
    [] OTHER -> [w EXCEPT !.since_last_time = 0]

Dispatch_KeepAliveConnects(w, message) ==
  CASE message = KEEP_ALIVE ->
         [w EXCEPT !.since_last_time = 0, !.timeout = re_connect_timeout,
                   !.activity_seen = TRUE]
    [] message = CONNECTION_CLOSED ->
         [w EXCEPT !.waiting_for_close = TRUE, !.stop_event = TRUE]
    [] message = CONNECTION_ESTABLISHED ->
         [w EXCEPT !.since_last_time = 0, !.timeout = re_connect_timeout,
                   !.activity_seen = TRUE]
    [] message = ENV_STATE_REQUESTED ->
         [w EXCEPT !.written = Append(@, save_env_state(environ, VARS_DENYLIST, {}, TRUE).vars)]
    [] OTHER -> w

Dispatch_EnvRequestIsActivity(w, message) ==
  CASE message = KEEP_ALIVE ->
         [w EXCEPT !.since_last_time = 0, !.activity_seen = TRUE]
    [] message = CONNECTION_CLOSED ->
         [w EXCEPT !.waiting_for_close = TRUE, !.stop_event = TRUE]
    [] message = CONNECTION_ESTABLISHED ->
         [w EXCEPT !.since_last_time = 0, !.timeout = re_connect_timeout,
                   !.activity_seen = TRUE]
    [] message = ENV_STATE_REQUESTED ->
         [w EXCEPT !.since_last_time = 0,
                   !.written = Append(@, save_env_state(environ, VARS_DENYLIST, {}, TRUE).vars)]
    [] OTHER -> w

Dispatch_AnswersUnknown(w, message) ==
  CASE message = KEEP_ALIVE ->
         [w EXCEPT !.since_last_time = 0, !.activity_seen = TRUE]
    [] message = CONNECTION_CLOSED ->
         [w EXCEPT !.waiting_for_close = TRUE, !.stop_event = TRUE]
    [] message = CONNECTION_ESTABLISHED ->
         [w EXCEPT !.since_last_time = 0, !.timeout = re_connect_timeout,
                   !.activity_seen = TRUE]
    [] message = ENV_STATE_REQUESTED ->
         [w EXCEPT !.written = Append(@, save_env_state(environ, VARS_DENYLIST, {}, TRUE).vars)]
    [] OTHER ->
         [w EXCEPT !.written = Append(@, save_env_state(environ, VARS_DENYLIST, {}, TRUE).vars)]

Dispatch_KeepAliveIgnored(w, message) ==
  CASE message = KEEP_ALIVE -> [w EXCEPT !.activity_seen = TRUE]
    [] message = CONNECTION_CLOSED ->
         [w EXCEPT !.waiting_for_close = TRUE, !.stop_event = TRUE]
    [] message = CONNECTION_ESTABLISHED ->
         [w EXCEPT !.since_last_time = 0, !.timeout = re_connect_timeout,
                   !.activity_seen = TRUE]
    [] message = ENV_STATE_REQUESTED ->
         [w EXCEPT !.written = Append(@, save_env_state(environ, VARS_DENYLIST, {}, TRUE).vars)]
    [] OTHER -> w

Dispatch_ReconnectRevives(w, message) ==
  CASE message = KEEP_ALIVE ->
         [w EXCEPT !.since_last_time = 0, !.activity_seen = TRUE]
    [] message = CONNECTION_CLOSED ->
         [w EXCEPT !.waiting_for_close = TRUE, !.stop_event = TRUE]
    [] message = CONNECTION_ESTABLISHED ->
         [w EXCEPT !.since_last_time = 0, !.timeout = re_connect_timeout,
                   !.activity_seen = TRUE, !.waiting_for_close = FALSE]
    [] message = ENV_STATE_REQUESTED ->
         [w EXCEPT !.written = Append(@, save_env_state(environ, VARS_DENYLIST, {}, TRUE).vars)]
    [] OTHER -> w

\* process_messages, lines 209-231: one message. WaitInfo.last_time = time.time()
\* sets the time since last_time to zero.
Dispatch(w, message) ==
  CASE message = KEEP_ALIVE ->
         [w EXCEPT !.since_last_time = 0, !.activity_seen = TRUE]
    [] message = CONNECTION_CLOSED ->
         [w EXCEPT !.waiting_for_close = TRUE, !.stop_event = TRUE]
    [] message = CONNECTION_ESTABLISHED ->
         [w EXCEPT !.since_last_time = 0, !.timeout = re_connect_timeout,
                   !.activity_seen = TRUE]
    [] message = ENV_STATE_REQUESTED ->
         [w EXCEPT !.written = Append(@, save_env_state(environ, VARS_DENYLIST, {}, TRUE).vars)]
    [] OTHER -> w

RECURSIVE DispatchAll(_, _)
DispatchAll(w, messages) ==
  IF messages = <<>> THEN w
  ELSE DispatchAll(Dispatch(w, Head(messages)), Tail(messages))

\* No connection has been handled yet.
NoConnection == [data |-> <<>>, late |-> FALSE]

\* What one read of a connection yields when it decodes: up to MaxLines lines.
ConnData == UNION {[1..n -> Lines] : n \in 0..MaxLines}

\* Bytes that are not UTF-8: data.decode() at line 207 raises UnicodeDecodeError.
UNDECODABLE == "undecodable"
RawData == ConnData \cup {<<UNDECODABLE>>}

\* process_messages: the whole handler of one accepted connection that read
\* data. When decode() raises, no message is dispatched and line 232 is not
\* reached: whether the transport is closed then depends on the asyncio of the
\* interpreter (closed by the stream protocol, or left open).
ProcessMessagesOn(data) ==
  /\ pc = "waiting"
  /\ IF UNDECODABLE \in Range(data)
     THEN /\ UNCHANGED <<since_last_time, timeout, waiting_for_close, stop_event,
                         activity_seen, established_seen>>
          /\ written' = <<>>
          /\ writer_closed' \in BOOLEAN
     ELSE LET messages == SelectSeq(data, LAMBDA m : m /= "")
              w == DispatchAll(WaitInfo, messages)
          IN /\ since_last_time' = w.since_last_time
             /\ timeout' = w.timeout
             /\ waiting_for_close' = w.waiting_for_close
             /\ stop_event' = w.stop_event
             /\ activity_seen' = w.activity_seen
             /\ established_seen' = (established_seen \/ CONNECTION_ESTABLISHED \in Range(messages))
             /\ written' = w.written
             /\ writer_closed' = TRUE
  /\ UNCHANGED <<pc, haltVars, labelVars, apiVars, until_wake, msg,
                 mainVars, worldVars, captureVars>>

\* A connection is accepted and handled.
ProcessMessages ==
  \E data \in RawData : ProcessMessagesOn(data) /\ UNCHANGED <<received, clientVars>>

\* wait_for_connection, lines 287-290: the listener starts, or the port is taken.
\* d is the time since the module was imported.
StartServer ==
  /\ pc = "start_server"
  /\ \/ \E d \in StartDelays :
          /\ since_last_time' = Units(d)
          /\ until_wake' = Units(TickSeconds)
          /\ pc' = "waiting"
          /\ UNCHANGED exit_kind
     \/ /\ pc' = "finally"
        /\ exit_kind' = "raise"
        /\ UNCHANGED <<since_last_time, until_wake>>
  /\ UNCHANGED <<haltVars, labelVars, apiVars, timeout, waiting_for_close,
                 stop_event, msg, activity_seen, established_seen, received, written,
                 writer_closed, cleanups, rmtree_result, worldVars, captureVars, clientVars>>

\* Times, before the next wake-up, at which a connection may arrive.
ArrivalOffsets == {0, 1, Units(1), Units(30)}

\* Time passes while the wait loop sleeps in asyncio.wait.
Advance ==
  /\ pc = "waiting"
  /\ ~stop_event
  /\ until_wake > 0
  /\ LET left == Max({o \in ArrivalOffsets : o < until_wake})
     IN /\ until_wake' = left
        /\ since_last_time' = since_last_time + (until_wake - left)
  /\ UNCHANGED <<pc, haltVars, labelVars, apiVars, timeout, waiting_for_close,
                 stop_event, msg, activity_seen, established_seen, received, written,
                 writer_closed, mainVars, worldVars, captureVars, clientVars>>

TimedOut_AtLeast(elapsed_seconds, active_timeout) == elapsed_seconds >= active_timeout

\* wait_for_connection, line 305: the timeout test.
TimedOut(elapsed_seconds, active_timeout) == elapsed_seconds > active_timeout

WakeUp_SlowTick ==
  /\ pc = "waiting"
  /\ until_wake = 0 \/ stop_event
  /\ LET elapsed_seconds == since_last_time \div UnitsPerSecond
         terminate == waiting_for_close \/ TimedOut(elapsed_seconds, timeout)
     IN /\ msg' = IF waiting_for_close THEN "closed"
                  ELSE IF TimedOut(elapsed_seconds, timeout) THEN "timeout" ELSE msg
        /\ IF terminate
           THEN pc' = "finally" /\ exit_kind' = "return" /\ UNCHANGED until_wake
           ELSE pc' = "waiting" /\ until_wake' = Units(2 * TickSeconds)
                /\ UNCHANGED exit_kind
  /\ UNCHANGED <<haltVars, labelVars, apiVars, since_last_time, timeout,
                 waiting_for_close, stop_event, activity_seen, established_seen, received,
                 written, writer_closed, cleanups, rmtree_result, worldVars, captureVars, clientVars>>

\* wait_for_connection, lines 292-317: one wake-up of the wait loop, after 60
\* seconds or at once when the stop event is set.
WakeUp ==
  /\ pc = "waiting"
  /\ until_wake = 0 \/ stop_event
  /\ LET elapsed_seconds == since_last_time \div UnitsPerSecond
         terminate == waiting_for_close \/ TimedOut(elapsed_seconds, timeout)
     IN /\ msg' = IF waiting_for_close THEN "closed"
                  ELSE IF TimedOut(elapsed_seconds, timeout) THEN "timeout" ELSE msg
        /\ IF terminate
           THEN pc' = "finally" /\ exit_kind' = "return" /\ UNCHANGED until_wake
           ELSE pc' = "waiting" /\ until_wake' = Units(TickSeconds)
                /\ UNCHANGED exit_kind
  /\ UNCHANGED <<haltVars, labelVars, apiVars, since_last_time, timeout,
                 waiting_for_close, stop_event, activity_seen, established_seen, received,
                 written, writer_closed, cleanups, rmtree_result, worldVars, captureVars, clientVars>>

\* ------------------------------------------------- execution state file
\* Python values: None, a str (a sequence of characters) or a dict of str.
\* JSON values: null, a string (its text between double quotes) or an object.
EmptyItems == [k \in {} |-> <<>>]
PyNone == [kind |-> "None", str |-> <<>>, items |-> EmptyItems]
PyStr(s) == [kind |-> "str", str |-> s, items |-> EmptyItems]
PyDict(d) == [kind |-> "dict", str |-> <<>>, items |-> d]

\* json.dump of a str: the quote and the backslash get a backslash, a newline
\* becomes backslash, n.
RECURSIVE EscapeJson(_)
EscapeJson(s) ==
  IF s = <<>> THEN <<>>
  ELSE LET c == Head(s)
       IN (CASE c = "\"" -> <<"\\", "\"">>
             [] c = "\\" -> <<"\\", "\\">>
             [] c = "nl" -> <<"\\", "n">>
             [] OTHER -> <<c>>) \o EscapeJson(Tail(s))

\* json.load of the text of a string.
RECURSIVE UnescapeJson(_)
UnescapeJson(t) ==
  IF t = <<>> THEN <<>>
  ELSE IF Head(t) = "\\" /\ Len(t) >= 2
       THEN <<IF t[2] = "n" THEN "nl" ELSE t[2]>> \o UnescapeJson(SubSeq(t, 3, Len(t)))
       ELSE <<Head(t)>> \o UnescapeJson(Tail(t))

JsonString(s) == <<"\"">> \o EscapeJson(s) \o <<"\"">>
JsonStringValue(t) == UnescapeJson(SubSeq(t, 2, Len(t) - 1))

json_dump(v) ==
  CASE v.kind = "None" -> [kind |-> "null", text |-> <<>>, members |-> EmptyItems]
    [] v.kind = "str" -> [kind |-> "string", text |-> JsonString(v.str), members |-> EmptyItems]
    [] OTHER -> [kind |-> "object", text |-> <<>>,
                 members |-> [k \in DOMAIN v.items |-> JsonString(v.items[k])]]

json_load(j) ==
  CASE j.kind = "null" -> PyNone
    [] j.kind = "string" -> PyStr(JsonStringValue(j.text))
    [] OTHER -> PyDict([k \in DOMAIN j.members |-> JsonStringValue(j.members[k])])

\* utils.STATE_INFO_PATH and another path a caller may pass as out_path.
STATE_INFO_PATH == "execution_state.json"
OTHER_PATH == "elsewhere.json"
Paths == {STATE_INFO_PATH, OTHER_PATH}

\* A file: missing, or the JSON document in it, by field.
NoFile == [exists |-> FALSE, doc |-> EmptyItems]
\* No call yet; of a call, its arguments and whether it replaced a document
\* that differed from its own in every field.
NoCall == [made |-> FALSE, shell_command |-> PyNone, directory |-> PyNone, env |-> PyNone,
           replaced |-> FALSE]
\* Nothing read yet; of a read, what get_execution_state returned, its no_env
\* argument, and how many calls of save_current_execution_info came before.
NotLoaded == [done |-> FALSE, shell_command |-> PyNone, directory |-> PyNone,
              env |-> PyNone, no_env |-> FALSE, at |-> 0]
\* The environment is to come from the server: request_env_state is called.
FromServer == [kind |-> "request_env_state", str |-> <<>>, items |-> EmptyItems]

\* What save_current_execution_info is called with.
ShellCommands == {PyNone, PyStr(<<"make">>), PyStr(<<"echo", " ", "\"", "a", "\\", "n", "\"">>),
                  PyStr(<<"'", "nl">>)}
Directories == {PyNone, PyStr(<<"C:", "\\", "work">>)}
EnvStates == {PyNone, PyDict(EmptyItems), PyDict([k \in {"FOO"} |-> <<"\"", "bar", "\\">>])}

\* save_current_execution_info, lines 207-212: the document that is dumped.
save_current_execution_info(shell_command, directory, env_state) ==
  [f \in {"shell_command", "directory", "env"} |->
     json_dump(CASE f = "shell_command" -> shell_command
                 [] f = "directory" -> directory
                 [] OTHER -> env_state)]

WriteFile_Merge(old, output) ==
  [exists |-> TRUE,
   doc |-> [f \in DOMAIN output \cup DOMAIN old.doc |->
              IF f \in DOMAIN output /\ (output[f].kind /= "null" \/ f \notin DOMAIN old.doc)
              THEN output[f] ELSE old.doc[f]]]

\* open(out_path, "w") and json.dump, lines 206 and 212: what was in the file
\* is gone.
WriteFile(old, output) == [exists |-> TRUE, doc |-> output]

\* dict.get on the loaded document.
get(data, field) == IF field \in DOMAIN data THEN json_load(data[field]) ELSE PyNone

\* save_current_execution_info is called, by save_all_info or as a library.
SaveCurrentExecutionInfo ==
  /\ pc = "library"
  /\ persist_count < MaxPersists
  /\ \E shell_command \in ShellCommands, directory \in Directories,
        env_state \in EnvStates, out_path \in Paths :
       /\ exec_info' = [exec_info EXCEPT ![out_path] =
            WriteFile(@, save_current_execution_info(shell_command, directory, env_state))]
       /\ persisted' = [persisted EXCEPT ![out_path] =
            [made |-> TRUE, shell_command |-> shell_command, directory |-> directory,
             env |-> env_state,
             replaced |->
               /\ exec_info[out_path].exists
               /\ \A f \in DOMAIN exec_info[out_path].doc :
                    exec_info[out_path].doc[f]
                      /= save_current_execution_info(shell_command, directory, env_state)[f]]]
       /\ state_dir' = IF out_path = STATE_INFO_PATH THEN "with_state" ELSE state_dir
  /\ persist_count' = persist_count + 1
  /\ UNCHANGED <<pc, haltVars, labelVars, apiVars, serverVars, mainVars, environ,
                 call, snapshot, env_file, loaded, clientVars>>

\* get_execution_state, lines 126-153, on the file at STATE_INFO_PATH.
LoadExecutionState ==
  /\ pc = "library"
  /\ \E flag \in BOOLEAN :
       LET file == exec_info[STATE_INFO_PATH]
           data == IF file.exists THEN file.doc ELSE EmptyItems
       IN loaded' = [done |-> TRUE,
                     shell_command |-> get(data, "shell_command"),
                     directory |-> get(data, "directory"),
                     env |-> IF flag THEN PyNone
                             ELSE IF "env" \in DOMAIN data THEN get(data, "env")
                             ELSE FromServer,
                     no_env |-> flag, at |-> persist_count]
  /\ UNCHANGED <<pc, haltVars, labelVars, apiVars, serverVars, mainVars, worldVars,
                 call, snapshot, env_file, exec_info, persisted, persist_count, clientVars>>

\* ----------------------------------------------------------- specifications
InitFrames ==
  /\ dispatch_input = UNSET
  /\ explicit_halt_requested = UNSET /\ actions_debug_enabled = UNSET
  /\ event_name = UNSET /\ labels_require_halting = UNSET /\ halt_outcome = UNSET
  /\ github_ref = UNSET /\ label_data = Unset /\ labels = Unset
  /\ event_file_read = FALSE /\ event_payload = UNSET
  /\ run_attempt = 0 /\ run_attempt_env = UNSET
  /\ requests = 0
  /\ headers_auth = FALSE /\ cur_attempt = 1 /\ req_status = URLError
  /\ req_auth = FALSE /\ req_waited = 0 /\ pending_wait = 0 /\ total_wait = 0

\* WaitInfo's class body, run when the module is imported.
InitWaitInfo ==
  /\ since_last_time = 0 /\ timeout = pre_connect_timeout
  /\ waiting_for_close = FALSE /\ stop_event = FALSE
  /\ until_wake = 0 /\ msg = "none" /\ activity_seen = FALSE /\ established_seen = FALSE
  /\ received = NoConnection /\ written = <<>> /\ writer_closed = FALSE

InitCapture ==
  /\ call = [denylist |-> {}, allowlist |-> {}, out_path |-> FALSE]
  /\ snapshot = <<>> /\ env_file = <<>>
  /\ exec_info = [p \in Paths |-> NoFile]
  /\ persisted = [p \in Paths |-> NoCall]
  /\ persist_count = 0 /\ loaded = NotLoaded

\* notify_connection.py has not been started.
InitClient ==
  /\ no_env = FALSE /\ client_pc = "idle" /\ heartbeat_pc = "not_started"
  /\ lock_holder = "free"
  /\ sock = [t \in Threads |-> "none"]
  /\ sending = [t \in Threads |-> "none"]
  /\ result = [t \in Threads |-> "none"]
  /\ sleep_left = 0 /\ since_keep_alive = 0
  /\ sent = [m \in ConnectionSignals |-> 0]
  /\ state_info = UNSET /\ env_source = UNSET /\ shell = "not_started"

\* Line 52: the module is imported and _RUN_ATTEMPT is computed from
\* GITHUB_RUN_ATTEMPT. An exception here ends the process before main is called.
ImportModule ==
  /\ pc = "import"
  /\ \E raw \in RunAttemptEnv :
       pc' = IF get_run_attempt_num(raw).raises = "none" THEN "main" ELSE "import_failed"
  /\ UNCHANGED <<haltVars, labelVars, apiVars, serverVars, mainVars, worldVars,
                 captureVars, clientVars>>

\* wait_for_connection.py is started; main will be entered with its two
\* arguments.
Init ==
  /\ InitClient
  /\ pc = "import"
  /\ wait_regardless \in BOOLEAN
  /\ wait_after_conditions_check \in BOOLEAN
  /\ InitFrames /\ InitWaitInfo /\ InitCapture
  /\ exit_kind = "running" /\ cleanups = 0 /\ rmtree_result = "none"
  /\ environ \in MainEnvirons
  /\ state_dir \in {"missing", "empty", "with_state"}

Next ==
  \/ ImportModule
  \/ ShouldHaltStart
  \/ RetrieveLabelsStart
  \/ ApiAttempt
  \/ RetrieveLabelsFinish
  \/ CheckLabels
  \/ MainAfterHalt
  \/ StartServer
  \/ ProcessMessages
  \/ Advance
  \/ WakeUp
  \/ Finally

Spec == Init /\ [][Next]_vars

\* The wait loop's timer fires and the event loop runs what is ready: time
\* passes and a due wake-up happens.
FairSpec == Spec /\ WF_vars(Advance) /\ WF_vars(WakeUp)

\* ------------------------------------------------- capture specification
\* save_env_state called with a deny-list and an allow-list, as save_all_info
\* and library callers do; with a path it also writes the KEY=VALUE file.
SaveEnvState ==
  /\ pc = "preserve_run_state"
  /\ \E denylist \in SUBSET Names, allowlist \in SUBSET Names, out_path \in BOOLEAN :
       LET out == save_env_state(environ, denylist, allowlist, TRUE)
       IN /\ call' = [denylist |-> denylist, allowlist |-> allowlist, out_path |-> out_path]
          /\ snapshot' = out.vars
          /\ env_file' = IF out_path THEN out.file ELSE env_file
          /\ state_dir' = IF out_path /\ state_dir = "missing" THEN "empty" ELSE state_dir
  /\ pc' = "captured"
  /\ UNCHANGED <<haltVars, labelVars, apiVars, serverVars, mainVars, environ, clientVars,
                 exec_info, persisted, persist_count, loaded>>

\* Either preserve_run_state is about to capture, or the session server is
\* listening, in any environment.
InitEnv ==
  /\ InitClient
  /\ pc \in {"preserve_run_state", "waiting"}
  /\ wait_regardless = FALSE /\ wait_after_conditions_check = FALSE
  /\ InitFrames /\ InitCapture
  /\ since_last_time = 0 /\ timeout = pre_connect_timeout
  /\ waiting_for_close = FALSE /\ stop_event = FALSE
  /\ until_wake = Units(TickSeconds) /\ msg = "none" /\ activity_seen = FALSE /\ established_seen = FALSE
  /\ received = NoConnection /\ written = <<>> /\ writer_closed = FALSE
  /\ exit_kind = "running" /\ cleanups = 0 /\ rmtree_result = "none"
  /\ environ \in Environs
  /\ state_dir = "missing"

\* The server's first connection.
FirstConnection == ~writer_closed /\ ProcessMessages

NextEnv ==
  \/ SaveEnvState
  \/ FirstConnection

SpecEnv == InitEnv /\ [][NextEnv]_vars

\* ------------------------------------------------- session server alone
\* wait_for_connection is entered: main's decision was to halt. Each handled
\* connection's data is kept in received.
InitServer ==
  /\ InitClient
  /\ pc = "start_server"
  /\ wait_regardless = FALSE /\ wait_after_conditions_check = FALSE
  /\ InitFrames /\ InitWaitInfo /\ InitCapture
  /\ exit_kind = "running" /\ cleanups = 0 /\ rmtree_result = "none"
  /\ environ = MkEnviron({"FOO"}, <<>>, <<>>)
  /\ state_dir = "missing"

\* process_messages for one accepted connection; what it read, and whether
\* the timeout test of line 305 would have held when it was read, are
\* remembered.
Connection ==
  \E data \in RawData :
     /\ ProcessMessagesOn(data)
     /\ received' = [data |-> data,
                     late |-> TimedOut(since_last_time \div UnitsPerSecond, timeout)]
     /\ UNCHANGED clientVars

NextServer ==
  \/ StartServer
  \/ Connection
  \/ Advance
  \/ WakeUp

SpecServer == InitServer /\ [][NextServer]_vars

\* ------------------------------------------- execution state specification
\* preserve_run_state.py used as a library, and the client's reading of the
\* file it wrote.
InitPersist ==
  /\ InitClient
  /\ pc = "library"
  /\ wait_regardless = FALSE /\ wait_after_conditions_check = FALSE
  /\ InitFrames /\ InitWaitInfo /\ InitCapture
  /\ exit_kind = "running" /\ cleanups = 0 /\ rmtree_result = "none"
  /\ environ = MkEnviron({"FOO"}, <<>>, <<>>)
  /\ state_dir = "empty"

NextPersist ==
  \/ SaveCurrentExecutionInfo
  \/ LoadExecutionState

SpecPersist == InitPersist /\ [][NextPersist]_vars

\* ---------------------------------------------- KEY=VALUE file specification
\* The values FOO has when the capture is to write them out: plain, with a
\* single quote, a double quote, both, a backslash, a newline.
QuotedValues == {<<"bar">>, <<"it", "'", "s">>, <<"\"", "bar", "\"">>, <<"'", "\"">>,
                 <<"C:", "\\", "work">>, <<"a", "nl", "b">>}

\* save_env_state is about to be called in an environment where FOO has one of
\* these values; the token is set or not.
InitEnvFile ==
  /\ InitClient
  /\ pc = "preserve_run_state"
  /\ wait_regardless = FALSE /\ wait_after_conditions_check = FALSE
  /\ InitFrames /\ InitWaitInfo /\ InitCapture
  /\ exit_kind = "running" /\ cleanups = 0 /\ rmtree_result = "none"
  /\ \E v \in QuotedValues, P \in {{"FOO"}, {"FOO", "GITHUB_TOKEN"}} :
       environ = [n \in P |-> IF n = "FOO" THEN v ELSE PlainValue(n)]
  /\ state_dir \in {"missing", "empty"}

SpecEnvFile == InitEnvFile /\ [][SaveEnvState]_vars

\* ----------------------------------------------------------- session client
programVars == <<pc, haltVars, labelVars, apiVars, serverVars, mainVars, worldVars,
                 captureVars>>
Min(a, b) == IF a <= b THEN a ELSE b

\* The client process is running.
ClientAlive == client_pc \notin {"idle", "done", "crashed"}

\* What connect, sendall and recv of one send_message can come to: sent (and,
\* when a response is awaited, what was read until the server closed), or an
\* exception.
SendOutcomes(m) ==
  IF m = ENV_STATE_REQUESTED THEN {"data", "no_data", "garbage", "refused", "error"}
  ELSE {"sent", "refused", "error"}

\* What the execution state file holds when it exists.
StateInfos == {"bad_json", "no_env", "with_env", "not_object"}

\* send_message, line 63: thread t calls it with message m.
EnterSend(t, m) ==
  /\ sending' = [sending EXCEPT ![t] = m]
  /\ sent' = [sent EXCEPT ![m] = @ + 1]

\* The interpreter exits: the daemon thread and every socket go with it.
ProcessExit ==
  /\ heartbeat_pc' = "dead"
  /\ lock_holder' = "free"
  /\ sock' = [t \in Threads |-> "none"]
  /\ sending' = [t \in Threads |-> "none"]

Acquire_NoLock(t) ==
  /\ ClientAlive
  /\ sending[t] /= "none" /\ sock[t] = "none"
  /\ lock_holder' = t
  /\ sock' = [sock EXCEPT ![t] = "open"]
  /\ UNCHANGED <<programVars, no_env, client_pc, heartbeat_pc, sending, result,
                 sleep_left, since_keep_alive, sent, state_info, env_source, shell>>

\* send_message, lines 74-75: thread t takes _LOCK and creates its socket.
Acquire(t) ==
  /\ ClientAlive
  /\ sending[t] /= "none" /\ sock[t] = "none" /\ lock_holder = "free"
  /\ lock_holder' = t
  /\ sock' = [sock EXCEPT ![t] = "open"]
  /\ UNCHANGED <<programVars, no_env, client_pc, heartbeat_pc, sending, result,
                 sleep_left, since_keep_alive, sent, state_info, env_source, shell>>

\* send_message, lines 76-96: connect, sendall and, for a response, recv until
\* the server closes; every exception is caught and logged.
Transmit(t) ==
  /\ ClientAlive
  /\ lock_holder = t /\ sock[t] = "open"
  /\ \E outcome \in SendOutcomes(sending[t]) :
       result' = [result EXCEPT ![t] = outcome]
  /\ sock' = [sock EXCEPT ![t] = "used"]
  /\ UNCHANGED <<programVars, no_env, client_pc, heartbeat_pc, lock_holder, sending,
                 sleep_left, since_keep_alive, sent, state_info, env_source, shell>>

ClientStart_ThreadFirst ==
  /\ client_pc = "main"
  /\ heartbeat_pc' = "sleeping"
  /\ sleep_left' = KEEP_ALIVE_INTERVAL
  /\ EnterSend("main", CONNECTION_ESTABLISHED)
  /\ client_pc' = "send_established"
  /\ UNCHANGED <<programVars, no_env, lock_holder, sock, result,
                 since_keep_alive, state_info, env_source, shell>>

\* main, line 165: connection_established is sent first.
ClientStart ==
  /\ client_pc = "main"
  /\ EnterSend("main", CONNECTION_ESTABLISHED)
  /\ client_pc' = "send_established"
  /\ UNCHANGED <<programVars, no_env, heartbeat_pc, lock_holder, sock, result,
                 sleep_left, since_keep_alive, state_info, env_source, shell>>

ReleaseMain_RaisesOnError ==
  /\ ClientAlive
  /\ lock_holder = "main" /\ sock["main"] = "used"
  /\ CASE result["main"] \in {"refused", "error"} ->
            /\ client_pc' = "crashed"
            /\ ProcessExit
            /\ UNCHANGED env_source
       [] result["main"] \notin {"refused", "error"} /\ client_pc = "send_established" ->
            /\ client_pc' = "start_thread"
            /\ lock_holder' = "free"
            /\ sock' = [sock EXCEPT !["main"] = "none"]
            /\ sending' = [sending EXCEPT !["main"] = "none"]
            /\ UNCHANGED <<env_source, heartbeat_pc>>
       [] result["main"] \notin {"refused", "error"} /\ client_pc = "request_env_state" ->
            /\ client_pc' = "spawn"
            /\ env_source' = IF result["main"] = "data" THEN "server" ELSE "own"
            /\ lock_holder' = "free"
            /\ sock' = [sock EXCEPT !["main"] = "none"]
            /\ sending' = [sending EXCEPT !["main"] = "none"]
            /\ UNCHANGED heartbeat_pc
       [] OTHER ->
            /\ client_pc' = "done"
            /\ ProcessExit
            /\ UNCHANGED env_source
  /\ UNCHANGED <<programVars, no_env, result, sleep_left, since_keep_alive, sent,
                 state_info, shell>>

\* The main thread leaves send_message: the socket is closed, _LOCK released,
\* and main goes on with what was returned (lines 99-108, 165, 197).
ReleaseMain ==
  /\ ClientAlive
  /\ lock_holder = "main" /\ sock["main"] = "used"
  /\ CASE client_pc = "send_established" ->
            /\ client_pc' = "start_thread"
            /\ lock_holder' = "free"
            /\ sock' = [sock EXCEPT !["main"] = "none"]
            /\ sending' = [sending EXCEPT !["main"] = "none"]
            /\ UNCHANGED <<env_source, heartbeat_pc>>
       [] client_pc = "request_env_state" ->
            /\ client_pc' = "spawn"
            /\ env_source' = IF result["main"] = "data" THEN "server" ELSE "own"
            /\ lock_holder' = "free"
            /\ sock' = [sock EXCEPT !["main"] = "none"]
            /\ sending' = [sending EXCEPT !["main"] = "none"]
            /\ UNCHANGED heartbeat_pc
       [] OTHER ->
            /\ client_pc' = "done"
            /\ ProcessExit
            /\ UNCHANGED env_source
  /\ UNCHANGED <<programVars, no_env, result, sleep_left, since_keep_alive, sent,
                 state_info, shell>>

\* main, lines 168-169: the keep-alive thread starts and goes to sleep.
StartHeartbeat ==
  /\ client_pc = "start_thread"
  /\ heartbeat_pc' = "sleeping"
  /\ sleep_left' = KEEP_ALIVE_INTERVAL
  /\ since_keep_alive' = 0
  /\ client_pc' = "get_execution_state"
  /\ UNCHANGED <<programVars, no_env, lock_holder, sock, sending, result, sent,
                 state_info, env_source, shell>>

GetExecutionState_AlwaysAsks ==
  /\ client_pc = "get_execution_state"
  /\ \E info \in IF state_dir = "with_state" THEN StateInfos ELSE {"missing"} :
       /\ state_info' = info
       /\ CASE info = "not_object" ->
                 /\ client_pc' = "crashed" /\ ProcessExit
                 /\ UNCHANGED <<env_source, sent>>
            [] info /= "not_object" /\ no_env ->
                 /\ client_pc' = "spawn" /\ env_source' = "disabled"
                 /\ UNCHANGED <<heartbeat_pc, lock_holder, sock, sending, sent>>
            [] OTHER ->
                 /\ client_pc' = "request_env_state"
                 /\ EnterSend("main", ENV_STATE_REQUESTED)
                 /\ UNCHANGED <<env_source, heartbeat_pc, lock_holder, sock>>
  /\ UNCHANGED <<programVars, no_env, result, sleep_left, since_keep_alive, shell>>

\* get_execution_state, lines 126-153, up to the call of request_env_state.
GetExecutionState ==
  /\ client_pc = "get_execution_state"
  /\ \E info \in IF state_dir = "with_state" THEN StateInfos ELSE {"missing"} :
       /\ state_info' = info
       /\ CASE info = "not_object" ->
                 /\ client_pc' = "crashed" /\ ProcessExit
                 /\ UNCHANGED <<env_source, sent>>
            [] info /= "not_object" /\ no_env ->
                 /\ client_pc' = "spawn" /\ env_source' = "disabled"
                 /\ UNCHANGED <<heartbeat_pc, lock_holder, sock, sending, sent>>
            [] info = "with_env" /\ ~no_env ->
                 /\ client_pc' = "spawn" /\ env_source' = "file"
                 /\ UNCHANGED <<heartbeat_pc, lock_holder, sock, sending, sent>>
            [] OTHER ->
                 /\ client_pc' = "request_env_state"
                 /\ EnterSend("main", ENV_STATE_REQUESTED)
                 /\ UNCHANGED <<env_source, heartbeat_pc, lock_holder, sock>>
  /\ UNCHANGED <<programVars, no_env, result, sleep_left, since_keep_alive, shell>>

\* main, lines 174-195: the environment and directory are applied and the
\* interactive shell is started, unless one of these raises.
SpawnShell ==
  /\ client_pc = "spawn"
  /\ \/ /\ client_pc' = "shell" /\ shell' = "running"
        /\ UNCHANGED <<heartbeat_pc, lock_holder, sock, sending>>
     \/ /\ client_pc' = "crashed" /\ ProcessExit
        /\ UNCHANGED shell
  /\ UNCHANGED <<programVars, no_env, result, sleep_left, since_keep_alive, sent,
                 state_info, env_source>>

\* main, lines 191-197: the shell exits and connection_closed is sent.
ShellExit ==
  /\ client_pc = "shell"
  /\ shell' = "exited"
  /\ EnterSend("main", CONNECTION_CLOSED)
  /\ client_pc' = "send_closed"
  /\ UNCHANGED <<programVars, no_env, heartbeat_pc, lock_holder, sock, result,
                 sleep_left, since_keep_alive, state_info, env_source>>

\* keep_alive, lines 112-114: the sleep is over and keep_alive is sent.
HeartbeatWake ==
  /\ ClientAlive
  /\ heartbeat_pc = "sleeping" /\ sleep_left = 0
  /\ sent[KEEP_ALIVE] < MaxKeepAlives
  /\ EnterSend("heartbeat", KEEP_ALIVE)
  /\ heartbeat_pc' = "send"
  /\ since_keep_alive' = 0
  /\ UNCHANGED <<programVars, no_env, client_pc, lock_holder, sock, result,
                 sleep_left, state_info, env_source, shell>>

ReleaseHeartbeat_RetryAtOnce ==
  /\ ClientAlive
  /\ lock_holder = "heartbeat" /\ sock["heartbeat"] = "used"
  /\ lock_holder' = "free"
  /\ sock' = [sock EXCEPT !["heartbeat"] = "none"]
  /\ sending' = [sending EXCEPT !["heartbeat"] = "none"]
  /\ heartbeat_pc' = "sleeping"
  /\ sleep_left' = IF result["heartbeat"] = "sent" THEN KEEP_ALIVE_INTERVAL ELSE 0
  /\ UNCHANGED <<programVars, no_env, client_pc, result, since_keep_alive, sent,
                 state_info, env_source, shell>>

\* The keep-alive thread leaves send_message and sleeps again.
ReleaseHeartbeat ==
  /\ ClientAlive
  /\ lock_holder = "heartbeat" /\ sock["heartbeat"] = "used"
  /\ lock_holder' = "free"
  /\ sock' = [sock EXCEPT !["heartbeat"] = "none"]
  /\ sending' = [sending EXCEPT !["heartbeat"] = "none"]
  /\ heartbeat_pc' = "sleeping"
  /\ sleep_left' = KEEP_ALIVE_INTERVAL
  /\ UNCHANGED <<programVars, no_env, client_pc, result, since_keep_alive, sent,
                 state_info, env_source, shell>>

\* Time passes for the client: the sleep of the keep-alive thread runs down,
\* or the thread is held up in send_message.
ClientTick ==
  /\ ClientAlive
  /\ heartbeat_pc \in {"sleeping", "send"}
  /\ ~(heartbeat_pc = "sleeping" /\ sleep_left = 0)
  /\ LET d == IF heartbeat_pc = "sleeping" THEN Min(ClientStep, sleep_left)
              ELSE ClientStep
     IN /\ sleep_left' = IF heartbeat_pc = "sleeping" THEN sleep_left - d ELSE sleep_left
        /\ since_keep_alive' = Min(since_keep_alive + d, MaxGap)
  /\ UNCHANGED <<programVars, no_env, client_pc, heartbeat_pc, lock_holder, sock,
                 sending, result, sent, state_info, env_source, shell>>

\* notify_connection.py is started, with or without --no-env.
InitClientRun ==
  /\ pc = "client"
  /\ wait_regardless = FALSE /\ wait_after_conditions_check = FALSE
  /\ InitFrames /\ InitWaitInfo /\ InitCapture
  /\ exit_kind = "running" /\ cleanups = 0 /\ rmtree_result = "none"
  /\ environ = MkEnviron({"FOO"}, <<>>, <<>>)
  /\ state_dir \in {"missing", "with_state"}
  /\ no_env \in BOOLEAN /\ client_pc = "main" /\ heartbeat_pc = "not_started"
  /\ lock_holder = "free"
  /\ sock = [t \in Threads |-> "none"]
  /\ sending = [t \in Threads |-> "none"]
  /\ result = [t \in Threads |-> "none"]
  /\ sleep_left = 0 /\ since_keep_alive = 0
  /\ sent = [m \in ConnectionSignals |-> 0]
  /\ state_info = UNSET /\ env_source = UNSET /\ shell = "not_started"

NextClient ==
  \/ ClientStart
  \/ \E t \in Threads : Acquire(t)
  \/ \E t \in Threads : Transmit(t)
  \/ ReleaseMain
  \/ StartHeartbeat
  \/ GetExecutionState
  \/ SpawnShell
  \/ ShellExit
  \/ HeartbeatWake
  \/ ReleaseHeartbeat
  \/ ClientTick

SpecClient == InitClientRun /\ [][NextClient]_vars

\* ------------------------------------------ server with an attached client
\* The server listens and one notify_connection.py is started against it at
\* some moment. The client is reduced to what the server sees of it: its
\* connection_established, a keep_alive every KEEP_ALIVE_INTERVAL seconds,
\* each of them delivered, and connection_closed when the shell exits.
InitAttached == InitServer

\* The server handles the data of the client's connection.
Delivered(data) ==
  /\ ProcessMessagesOn(data)
  /\ received' = [data |-> data,
                  late |-> TimedOut(since_last_time \div UnitsPerSecond, timeout)]

\* send_message failed (lines 90-95 of notify_connection.py): the server sees
\* nothing.
Dropped ==
  /\ pc = "waiting"
  /\ UNCHANGED <<programVars>>

\* notify_connection.py main, lines 165-169: connection_established is sent,
\* and delivered or not; the keep-alive thread starts its first sleep.
SessionAttach ==
  /\ pc = "waiting" /\ client_pc = "idle"
  /\ Delivered(<<CONNECTION_ESTABLISHED>>) \/ Dropped
  /\ client_pc' = "shell"
  /\ heartbeat_pc' = "sleeping"
  /\ sleep_left' = KEEP_ALIVE_INTERVAL
  /\ UNCHANGED <<no_env, lock_holder, sock, sending, result, since_keep_alive, sent,
                 state_info, env_source, shell>>

\* keep_alive, lines 112-114: the sleep is over, keep_alive is sent and the
\* server handles it; the thread sleeps again.
KeepAliveDelivered ==
  /\ client_pc = "shell" /\ heartbeat_pc = "sleeping" /\ sleep_left = 0
  /\ Delivered(<<KEEP_ALIVE>>)
  /\ sleep_left' = KEEP_ALIVE_INTERVAL
  /\ UNCHANGED <<no_env, client_pc, heartbeat_pc, lock_holder, sock, sending, result,
                 since_keep_alive, sent, state_info, env_source, shell>>

\* notify_connection.py main, lines 191-197: the shell exits, connection_closed
\* is sent, delivered or not, and the client process ends.
SessionClose ==
  /\ pc = "waiting" /\ client_pc = "shell"
  /\ Delivered(<<CONNECTION_CLOSED>>) \/ Dropped
  /\ client_pc' = "done"
  /\ heartbeat_pc' = "dead"
  /\ UNCHANGED <<no_env, lock_holder, sock, sending, result, sleep_left,
                 since_keep_alive, sent, state_info, env_source, shell>>

\* Time passes for the server and the client alike, up to the next wake-up of
\* the wait loop or the end of the keep-alive thread's sleep.
SessionTick ==
  /\ pc = "waiting" /\ ~stop_event /\ until_wake > 0
  /\ client_pc = "shell" => sleep_left > 0
  /\ LET to_wake == until_wake \div UnitsPerSecond
         d == IF client_pc = "shell" THEN Min(Min(ClientStep, sleep_left), to_wake)
              ELSE Min(ClientStep, to_wake)
     IN /\ until_wake' = until_wake - Units(d)
        /\ since_last_time' = since_last_time + Units(d)
        /\ sleep_left' = IF client_pc = "shell" THEN sleep_left - d ELSE sleep_left
  /\ UNCHANGED <<pc, haltVars, labelVars, apiVars, timeout, waiting_for_close,
                 stop_event, msg, activity_seen, established_seen, received, written,
                 writer_closed, mainVars, worldVars, captureVars,
                 no_env, client_pc, heartbeat_pc, lock_holder, sock, sending, result,
                 since_keep_alive, sent, state_info, env_source, shell>>

NextAttached ==
  \/ StartServer
  \/ SessionAttach
  \/ KeepAliveDelivered
  \/ SessionClose
  \/ SessionTick
  \/ WakeUp

SpecAttached == InitAttached /\ [][NextAttached]_vars

\* ------------------------------------------------------------------ claims

\* C1: when should_halt_for_connection decides with label retrieval having
\* returned None (so no earlier trigger returned) and the wait-after-checks
\* flag unset, it calls sys.exit(1); it does not return False, or True.
C1_AbsentLabelsExit ==
  (pc = "decided" /\ labels.kind = "None" /\ ~wait_after_conditions_check)
    => halt_outcome = "exit1"

\* C1's case: all three API attempts failed, the event file gave nothing,
\* the flag is unset, and the decision is exit code 1.
C1_Witness ==
  /\ pc = "decided" /\ labels.kind = "None" /\ ~wait_after_conditions_check
  /\ requests = total_attempts /\ event_file_read /\ halt_outcome = "exit1"

\* C2: main ends only through its finally clause: when it has ended, rmtree
\* has run exactly once and the state directory is gone, whether main
\* returned, exited with code 1 or raised; before that it has not run, and
\* a directory that was already missing leaves the way main ends as it was.
C2_CleanupOnce ==
  /\ pc = "exited" => /\ cleanups = 1
                      /\ state_dir = "missing"
                      /\ exit_kind \in {"return", "exit1", "raise"}
                      /\ rmtree_result \in {"removed", "FileNotFoundError"}
  /\ pc /= "exited" => cleanups = 0 /\ rmtree_result = "none"

\* C2's case: the decision engine's fatal exit, with no state directory.
C2_Witness ==
  pc = "exited" /\ exit_kind = "exit1" /\ rmtree_result = "FileNotFoundError"

\* C3: a wait that ended by timeout after a connection_established or
\* keep_alive was processed ended more than the active timeout after the last
\* of them; the active timeout is one of the two, and a server that is still
\* waiting with the reconnect timeout has had such a message.
C3_NoEarlyTimeout ==
  /\ (msg = "timeout" /\ activity_seen) => since_last_time > Units(timeout)
  /\ timeout \in {pre_connect_timeout, re_connect_timeout}
  /\ timeout = re_connect_timeout => activity_seen

\* C3's case: connected, exactly 15 minutes after the last message, just
\* past a wake-up, and still waiting.
C3_Witness ==
  /\ pc = "waiting" /\ timeout = re_connect_timeout /\ activity_seen
  /\ since_last_time = Units(re_connect_timeout)
  /\ until_wake = Units(TickSeconds) /\ msg = "none"

\* C4: once connection_closed has been processed the flag stays set, no time
\* passes before the wait loop wakes, the wake-up ends the wait, and the wait
\* ends with the close reason whatever else is processed meanwhile.
C4_ClosedEndsWait ==
  [][(pc = "waiting" /\ waiting_for_close)
       => /\ waiting_for_close'
          /\ until_wake' = until_wake
          /\ pc' /= "waiting" => (pc' = "finally" /\ msg' = "closed")
          /\ WakeUp => pc' = "finally"]_vars

\* C4's case: the wait ended by connection_closed more than 15 minutes after
\* the last message, between two wake-ups.
C4_Witness ==
  /\ pc = "finally" /\ msg = "closed" /\ timeout = re_connect_timeout
  /\ since_last_time > Units(re_connect_timeout)

\* A step in which a connection_established or keep_alive is processed.
ActivityProcessed ==
  ProcessMessages /\ activity_seen' /\ since_last_time' = 0

InApi == pc \in {"api_loop", "api_returned"} /\ requests >= 1

\* C6 (as stated): _get_labels_via_api issues at most total_attempts requests,
\* whatever the outcomes are.
C6_AtMostThreeRequests == requests <= total_attempts

\* C7 (as stated): a 401, 403 or 429 answer to a request without the
\* Authorization header makes _get_labels_via_api return None at once.
C7_UnauthenticatedErrorsTerminal ==
  (InApi /\ req_status \in AuthErrors /\ ~req_auth)
    => (pc = "api_returned" /\ label_data = NoData)

\* C7 (amended): a 401 or 403 answer to a request without the Authorization
\* header makes _get_labels_via_api return None at once; a 429 answer to
\* such a request counts as a failed attempt: while attempts remain the loop
\* goes on after the backoff, and after the last attempt None is returned.
C7_Unauthenticated429Retried ==
  /\ (InApi /\ req_status \in {401, 403} /\ ~req_auth)
       => (pc = "api_returned" /\ label_data = NoData)
  /\ (InApi /\ req_status = 429 /\ ~req_auth)
       => IF cur_attempt <= total_attempts
          THEN /\ pc = "api_loop"
               /\ pending_wait = wait_before_repeat_request(cur_attempt, total_attempts)
               /\ pending_wait > 0
          ELSE pc = "api_returned" /\ label_data = NoData

\* C7's case: the first request, without a token, was answered 429 and the
\* loop is about to make the second after 2 seconds.
C7_Witness ==
  /\ pc = "api_loop" /\ requests = 1 /\ req_status = 429 /\ ~req_auth
  /\ cur_attempt = 2 /\ pending_wait = 2

\* C8: a 404 answer, at whichever attempt and with or without the
\* Authorization header, makes _get_labels_via_api return None at once.
C8_NotFoundTerminal ==
  (InApi /\ req_status = 404) => (pc = "api_returned" /\ label_data = NoData)

\* C8's case: the third attempt, still with the token, was answered 404.
C8_Witness ==
  /\ pc = "api_returned" /\ req_status = 404 /\ req_auth
  /\ requests = total_attempts /\ cur_attempt = total_attempts
  /\ label_data = NoData

\* C9: the request that follows a 401, 403 or 429 answer to a request with
\* the Authorization header is made without that header and without a wait
\* before it.
C9_DowngradeAtOnce ==
  [][(InApi /\ req_status \in AuthErrors /\ req_auth /\ requests' = requests + 1)
       => (~req_auth' /\ req_waited' = 0)]_vars

\* C9's case: the token is set, so the first request carried it; the second
\* was made without it and without a wait.
C9_Witness ==
  /\ pc \in {"api_loop", "api_returned"}
  /\ getenv(environ, "GITHUB_TOKEN") /= <<>>
  /\ requests = 2 /\ cur_attempt >= 2 /\ ~req_auth /\ req_waited = 0

\* C10: GITHUB_TOKEN is not a key of the dict save_env_state returned, of the
\* KEY=VALUE file it wrote, or of a response the server wrote, whatever lists
\* the caller passed and whatever the two list variables hold.
C10_TokenNeverCaptured ==
  /\ "GITHUB_TOKEN" \notin DOMAIN snapshot
  /\ \A i \in 1..Len(env_file) : env_file[i][1] /= "GITHUB_TOKEN"
  /\ \A i \in 1..Len(written) : "GITHUB_TOKEN" \notin DOMAIN written[i]

\* C10's case: the token is set, the caller's allow-list and the allow-list
\* variable both name it, no deny-list is passed, and the capture wrote a file
\* with the other variable.
C10_Witness ==
  /\ pc = "captured" /\ "GITHUB_TOKEN" \in DOMAIN environ
  /\ call = [denylist |-> {}, allowlist |-> {"GITHUB_TOKEN", "FOO"}, out_path |-> TRUE]
  /\ "GITHUB_TOKEN" \in Range(get_names_from_env_vars_list(getenv(environ, ENV_ALLOWLIST_VAR_NAME)))
  /\ DOMAIN snapshot = {"FOO"} /\ Len(env_file) = 1

\* C11 (as stated): every response the server wrote to env_state_requested
\* is the whole environment less the fixed deny-list, and nothing else is
\* left out.
C11_FullEnvironmentSent ==
  \A i \in 1..Len(written) :
     written[i] = [k \in DOMAIN environ \ VARS_DENYLIST |-> environ[k]]

\* C11 (amended): every response the server wrote to env_state_requested is
\* the environment less the fixed deny-list and the names the deny-list
\* variable gives, cut down to the names the allow-list variable gives when
\* it gives any; with neither variable set it is the whole environment less
\* the fixed deny-list; and the connection that was answered is closed.
C11_EnvListsApplied ==
  LET deny == VARS_DENYLIST \cup
                Range(get_names_from_env_vars_list(getenv(environ, ENV_DENYLIST_VAR_NAME)))
      allow == Range(get_names_from_env_vars_list(getenv(environ, ENV_ALLOWLIST_VAR_NAME)))
      keep == {k \in DOMAIN environ : k \notin deny /\ (allow = {} \/ k \in allow)}
  IN /\ \A i \in 1..Len(written) : written[i] = [k \in keep |-> environ[k]]
     /\ (DOMAIN environ \subseteq Names)
          => \A i \in 1..Len(written) :
                written[i] = [k \in DOMAIN environ \ VARS_DENYLIST |-> environ[k]]
     /\ written /= <<>> => writer_closed

\* C11's case: FOO is set, the allow-list variable names another variable
\* only, and the response the server wrote has no FOO.
C11_Witness ==
  /\ pc = "waiting" /\ Len(written) = 1 /\ writer_closed
  /\ "FOO" \in DOMAIN environ
  /\ Range(get_names_from_env_vars_list(getenv(environ, ENV_ALLOWLIST_VAR_NAME)))
       = {"GITHUB_TOKEN"}
  /\ "FOO" \notin DOMAIN written[1]

\* C12: when should_halt_for_connection has decided and an earlier trigger
\* fired (wait_regardless with the wait-after-checks flag unset, a true-like
\* HALT_DISPATCH_INPUT, or runner debug on a schedule or workflow_dispatch
\* event), it returned True and retrieve_labels was not called: no request
\* was made, the event file was not read, GITHUB_REF was not looked at.
C12_ShortCircuit ==
  (/\ pc = "decided"
   /\ \/ wait_regardless /\ ~wait_after_conditions_check
      \/ explicit_halt_requested = "True"
      \/ actions_debug_enabled = "True" /\ event_name \in {"schedule", "workflow_dispatch"})
    => /\ halt_outcome = "True"
       /\ requests = 0 /\ ~event_file_read
       /\ github_ref = UNSET /\ labels = Unset /\ labels_require_halting = UNSET

\* C12's case: the debug-and-scheduled heuristic fired, after the dispatch
\* input was found false, in an environment with a token.
C12_Witness ==
  /\ pc = "decided" /\ halt_outcome = "True"
  /\ explicit_halt_requested = "False" /\ actions_debug_enabled = "True"
  /\ event_name = "schedule" /\ requests = 0 /\ ~event_file_read
  /\ "GITHUB_TOKEN" \in DOMAIN environ

C15_FlagWaitsOnAbsentLabels ==
  (pc = "decided" /\ labels.kind = "None" /\ wait_after_conditions_check)
    => (halt_outcome = "True" /\ labels_require_halting = NONE)

\* C15's case: wait_regardless false, the flag set, every attempt failed and
\* the event file gave nothing.
C15_Witness ==
  /\ pc = "decided" /\ ~wait_regardless /\ wait_after_conditions_check
  /\ labels.kind = "None" /\ requests = total_attempts /\ event_file_read
  /\ halt_outcome = "True"

\* C16: for a retrieved list, check_if_labels_require_connection_halting is
\* True iff the list has the halt-always label, or the halt-on-error label
\* with the execution state file on disk, or the halt-on-retry label with a
\* run attempt of 2 or more; otherwise it is False.
C16_LabelDecision ==
  (pc = "decided" /\ labels.kind = "list")
    => /\ labels_require_halting \in {"True", "False"}
       /\ labels_require_halting = "True"
            <=> \/ HALT_ALWAYS_LABEL \in labels.names
                \/ HALT_ON_ERROR_LABEL \in labels.names /\ state_dir = "with_state"
                \/ HALT_ON_RETRY_LABEL \in labels.names /\ run_attempt >= 2

\* C16's case: both conditional labels without their side conditions, first
\* attempt and a state directory without the state file: the decision is False.
C16_Witness ==
  /\ pc = "decided" /\ labels = ListOf({HALT_ON_RETRY_LABEL, HALT_ON_ERROR_LABEL})
  /\ run_attempt = 1 /\ state_dir = "empty" /\ labels_require_halting = "False"

\* C17: the value read for HALT_DISPATCH_INPUT counts as true iff it is not
\* empty and, in lower case, is none of 0, false, n, no, none, null, n/a;
\* when it counts as true should_halt_for_connection returns True, and when
\* it does not the function goes on to the next trigger.
C17_TrueLikeFlag ==
  (dispatch_input /= UNSET)
    => /\ pc \in {"retrieve_labels", "decided"}
       /\ explicit_halt_requested = "True"
            <=> /\ dispatch_input /= ""
                /\ \A t \in {"0", "false", "n", "no", "none", "null", "n/a"} :
                      Lower(dispatch_input) /= t
       /\ explicit_halt_requested \in {"True", "False"}
       /\ explicit_halt_requested = "True" => (pc = "decided" /\ halt_outcome = "True")

\* C17's case: the dispatch input is a negative token in upper case, and the
\* function has gone on to the labels.
C17_Witness ==
  /\ pc = "retrieve_labels" /\ dispatch_input = "NULL"
  /\ explicit_halt_requested = "False"

C19_ClientMessageOrder ==
  /\ sent[CONNECTION_ESTABLISHED] <= 1 /\ sent[CONNECTION_CLOSED] <= 1
  /\ (sent[KEEP_ALIVE] > 0 \/ sent[ENV_STATE_REQUESTED] > 0
        \/ heartbeat_pc /= "not_started")
       => (sent[CONNECTION_ESTABLISHED] = 1
           /\ client_pc \notin {"main", "send_established"})
  /\ sent[CONNECTION_CLOSED] > 0
       => (shell = "exited" /\ client_pc \in {"send_closed", "done"})
  /\ shell /= "not_started" => sent[CONNECTION_ESTABLISHED] = 1

\* C19's case: a whole run in which every kind of message was sent.
C19_Witness ==
  /\ client_pc = "done" /\ shell = "exited"
  /\ sent[CONNECTION_ESTABLISHED] = 1 /\ sent[ENV_STATE_REQUESTED] = 1
  /\ sent[KEEP_ALIVE] = MaxKeepAlives /\ sent[CONNECTION_CLOSED] = 1

\* C20: the keep-alive thread calls send_message(keep_alive) only at the end
\* of a sleep, 30 seconds or more after the thread started or after the call
\* before; whatever the send came to and wherever the main thread is, it goes
\* back to a full sleep of 30 seconds; and only the end of the process stops it.
C20_Heartbeat ==
  /\ [][sent'[KEEP_ALIVE] /= sent[KEEP_ALIVE]
          => /\ sent'[KEEP_ALIVE] = sent[KEEP_ALIVE] + 1
             /\ heartbeat_pc = "sleeping" /\ sleep_left = 0
             /\ since_keep_alive >= KEEP_ALIVE_INTERVAL]_vars
  /\ [][(sending["heartbeat"] /= "none" /\ sending'["heartbeat"] = "none"
           /\ heartbeat_pc' /= "dead")
          => (heartbeat_pc' = "sleeping" /\ sleep_left' = KEEP_ALIVE_INTERVAL)]_vars
  /\ [](heartbeat_pc = "dead" => client_pc \in {"done", "crashed"})
  /\ []((ClientAlive /\ client_pc \notin {"main", "send_established", "start_thread"})
          => heartbeat_pc \in {"sleeping", "send"})

\* C20's case: the first keep_alive was refused, and 30 seconds later, with
\* the main thread blocked in the shell, the second is being sent.
C20_Witness ==
  /\ sent[KEEP_ALIVE] = 2 /\ result["heartbeat"] = "refused"
  /\ heartbeat_pc = "send" /\ sock["heartbeat"] = "none"
  /\ client_pc = "shell" /\ since_keep_alive = 0
\* C21: a thread has a socket only while it holds _LOCK, so the two threads
\* never have sockets at the same time (a keep_alive send and a send of the
\* main thread do not overlap); the lock is held only by a thread that has its
\* socket; and a thread that is not in send_message, its send having returned
\* whatever it came to, holds neither the lock nor a socket.
C21_OneSendAtATime ==
  /\ \A t \in Threads : sock[t] /= "none" => lock_holder = t
  /\ ~(sock["main"] /= "none" /\ sock["heartbeat"] /= "none")
  /\ lock_holder \in Threads => sock[lock_holder] /= "none"
  /\ \A t \in Threads : sending[t] = "none" => (lock_holder /= t /\ sock[t] = "none")

\* C21's case: the main thread is in send_message for env_state_requested and
\* waits for the lock while the keep-alive thread, whose first keep_alive
\* failed and gave the lock back, has its socket for the second.
C21_Witness ==
  /\ sending["main"] = ENV_STATE_REQUESTED /\ sock["main"] = "none"
  /\ sending["heartbeat"] = KEEP_ALIVE /\ sock["heartbeat"] = "open"
  /\ lock_holder = "heartbeat"
  /\ sent[KEEP_ALIVE] = 2 /\ result["heartbeat"] \in {"refused", "error"}

\* get_execution_state has read the state file (or found none) and gone on.
StateResolved == state_info \notin {UNSET, "not_object"}

\* C22: once get_execution_state has looked at the state file, an
\* env_state_requested has been sent iff --no-env was not given and the file
\* is missing, is not JSON, or is an object without the env key; with an env
\* key in the file that environment is used and nothing is requested; with
\* --no-env no environment is resolved and nothing is requested; nothing is
\* requested before that, nor by a run that ended on a file that is JSON but
\* not an object; and no run sends more than one request.
C22_EnvRequestedIffNeeded ==
  /\ sent[ENV_STATE_REQUESTED] <= 1
  /\ StateResolved =>
       /\ sent[ENV_STATE_REQUESTED] = 1
            <=> (~no_env /\ state_info \in {"missing", "bad_json", "no_env"})
       /\ (~no_env /\ state_info = "with_env") => env_source = "file"
       /\ no_env => env_source = "disabled"
       /\ env_source \in {"server", "own"} => sent[ENV_STATE_REQUESTED] = 1
  /\ ~StateResolved => (sent[ENV_STATE_REQUESTED] = 0 /\ env_source = UNSET)
  /\ state_info = "missing" <=> (state_dir /= "with_state" /\ state_info /= UNSET)

\* C22's case: a state file without the env key, no --no-env, one request,
\* answered by the server, and the shell runs with what it sent.
C22_Witness ==
  /\ state_info = "no_env" /\ ~no_env /\ sent[ENV_STATE_REQUESTED] = 1
  /\ env_source = "server" /\ shell = "running"

\* Thread t's send has failed: connect, sendall or recv raised.
SendFailed(t) == sock[t] = "used" /\ result[t] \in {"refused", "error"}

\* C23: a send in which connect, sendall or recv raised returns like any
\* other send: the main thread goes on to its next statement and the
\* keep-alive thread to its next sleep, the message is not sent again, and
\* main ends early only on a state file that is not an object or while it
\* sets up the shell, never in a send; after a failed
\* connection_established the thread is started, after a failed
\* env_state_requested the shell is spawned with the client's own
\* environment, and a failed connection_closed ends the run normally.
C23_SendErrorsSwallowed ==
  /\ [][(SendFailed("main") /\ sending'["main"] = "none")
          => /\ sent' = sent
             /\ client_pc' = CASE sending["main"] = CONNECTION_ESTABLISHED -> "start_thread"
                               [] sending["main"] = ENV_STATE_REQUESTED -> "spawn"
                               [] OTHER -> "done"
             /\ sending["main"] = ENV_STATE_REQUESTED => env_source' = "own"]_vars
  /\ [][(SendFailed("heartbeat") /\ sending'["heartbeat"] = "none")
          => /\ sent' = sent
             /\ \/ heartbeat_pc' = "sleeping" /\ client_pc' = client_pc
                \/ heartbeat_pc' = "dead" /\ client_pc' = "crashed" /\ client_pc /= "crashed"
                     /\ client_pc \in {"get_execution_state", "spawn"}]_vars
  /\ [](sent[CONNECTION_ESTABLISHED] <= 1)
  /\ [](client_pc = "crashed" => (state_info = "not_object" \/ env_source /= UNSET))

\* C23's case: the env_state_requested of a run without --no-env was refused
\* or failed, and the shell is running with the client's own environment.
C23_Witness ==
  /\ client_pc = "shell" /\ shell = "running" /\ ~no_env
  /\ sent[ENV_STATE_REQUESTED] = 1 /\ result["main"] \in {"refused", "error"}
  /\ env_source = "own"

\* C24: what save_env_state returned, and the names of the KEY=VALUE file it
\* wrote, are the variables of the process environment, with their values,
\* whose name is in the effective allow-list or finds that list empty, and is
\* not in the effective deny-list; the effective deny-list is the fixed
\* names, the caller's deny-list and the names of the deny-list variable
\* together, the effective allow-list the caller's allow-list and the names of
\* the allow-list variable together.
C24_KeptIffAllowedAndNotDenied ==
  pc = "captured" =>
    LET effective_denylist ==
          VARS_DENYLIST \cup call.denylist
            \cup Range(get_names_from_env_vars_list(getenv(environ, ENV_DENYLIST_VAR_NAME)))
        effective_allowlist ==
          call.allowlist
            \cup Range(get_names_from_env_vars_list(getenv(environ, ENV_ALLOWLIST_VAR_NAME)))
    IN /\ \A k \in EnvNames :
            k \in DOMAIN snapshot
              <=> /\ k \in DOMAIN environ
                  /\ effective_allowlist = {} \/ k \in effective_allowlist
                  /\ k \notin effective_denylist
       /\ \A k \in DOMAIN snapshot : snapshot[k] = environ[k]
       /\ call.out_path => {env_file[i][1] : i \in 1..Len(env_file)} = DOMAIN snapshot

\* C24's case: FOO and the token are set, the caller allows the token, the
\* allow-list variable allows FOO, nothing but the fixed list denies, and
\* FOO alone is kept: not the token, nor the allow-list variable itself.
C24_Witness ==
  /\ pc = "captured" /\ {"FOO", "GITHUB_TOKEN"} \subseteq DOMAIN environ
  /\ call.allowlist = {"GITHUB_TOKEN"} /\ call.denylist = {} /\ call.out_path
  /\ getenv(environ, ENV_ALLOWLIST_VAR_NAME) = <<"FOO">>
  /\ ENV_DENYLIST_VAR_NAME \notin DOMAIN environ
  /\ DOMAIN snapshot = {"FOO"} /\ Len(env_file) = 1

\* The variables save_env_state keeps when the two list variables give the
\* names dnames and anames.
KeptWith(dnames, anames) ==
  {k \in DOMAIN environ :
     /\ (call.allowlist \cup anames) = {} \/ k \in call.allowlist \cup anames
     /\ k \notin VARS_DENYLIST \cup call.denylist \cup dnames}

\* The names a list string gives unless it is left out: the names between
\* its commas.
NamesUnless(ignored, s) == IF ignored THEN {} ELSE Range(s) \cap Names

StateInfoFields == {"shell_command", "directory", "env"}

\* C26: when get_execution_state reads the state file after
\* save_current_execution_info has written it, once or again and again, it
\* returns the shell_command and directory of the last call that wrote it,
\* and, unless no_env is given, its env; and every file the function wrote
\* is the document of the last call that wrote to that path, with exactly the
\* three fields and nothing of what was there before.
C26_LastPersistLoaded ==
  /\ (loaded.done /\ loaded.at = persist_count /\ persisted[STATE_INFO_PATH].made) =>
       /\ loaded.shell_command = persisted[STATE_INFO_PATH].shell_command
       /\ loaded.directory = persisted[STATE_INFO_PATH].directory
       /\ ~loaded.no_env => loaded.env = persisted[STATE_INFO_PATH].env
  /\ \A p \in Paths :
       /\ exec_info[p].exists <=> persisted[p].made
       /\ exec_info[p].exists =>
            /\ DOMAIN exec_info[p].doc = StateInfoFields
            /\ exec_info[p].doc = save_current_execution_info(
                 persisted[p].shell_command, persisted[p].directory, persisted[p].env)

\* C26's case: the second call wrote to the state path over a document that
\* differed in all three fields, with no shell command and an environment
\* whose value has a quote and a backslash, and the file was read after it.
C26_Witness ==
  /\ persist_count = 2 /\ persisted[STATE_INFO_PATH].replaced
  /\ loaded.done /\ loaded.at = 2 /\ ~loaded.no_env
  /\ loaded.shell_command = PyNone
  /\ loaded.env = PyDict([k \in {"FOO"} |-> <<"\"", "bar", "\\">>])

\* C27 (as stated): retrieve_labels reads the event payload file exactly when
\* _get_labels_via_api did not come back with a list of labels: when it
\* returned None, and also when the body of the 200 answer was JSON of another
\* shape than a list of objects with a name; and never when it came back with
\* a list of labels.
C27_FallbackOnAnyApiFailure ==
  [][(pc = "api_returned" /\ pc' = "retrieved")
       => (event_file_read' <=> label_data.kind /= "list")]_vars

\* An answer the retry loop is to meet with a backoff: a transport error, or a
\* status other than 200, 404 and the authorization errors.
OtherFailure(st) == st = URLError \/ st \notin {200, 404} \cup AuthErrors

\* C28 (as stated): a request that follows a transport error or a status
\* other than 200, 404 and the authorization errors is attempt 2 or 3 and is
\* made after a wait of exactly 2 * 2^(n - 2) seconds, n being its attempt
\* number; attempt 1 is made without a wait; nothing is waited once the loop
\* is left; and the waits of one fetch add up to 6 seconds at most.
C28_BackoffBeforeRetry ==
  /\ [][(pc = "api_loop" /\ requests' = requests + 1)
          => /\ cur_attempt = 1 => req_waited' = 0
             /\ (requests >= 1 /\ OtherFailure(req_status))
                  => /\ cur_attempt \in {2, 3}
                     /\ req_waited' = 2 * (2 ^ (cur_attempt - 2))]_vars
  /\ [](pc = "api_returned" => pending_wait = 0)
  /\ [](total_wait <= 6)

\* The reading of a line of the KEY='VALUE' file: the value is what stands
\* between the single quote after the equals sign and the single quote at the
\* end of the line; a line of another form has no reading.
Unparsed == <<"unparsed", "line">>
ParseQuotedValue(text) ==
  IF Len(text) >= 2 /\ text[1] = "'" /\ text[Len(text)] = "'"
  THEN SubSeq(text, 2, Len(text) - 1) ELSE Unparsed

\* C29 (as stated): every line of the file save_env_state wrote, read back
\* as KEY='VALUE', gives the value the variable has in the dict that was
\* returned, for values without a newline, values with single quotes, double
\* quotes or backslashes among them; and the file has one line for each
\* variable of the dict.
C29_EnvFileRoundTrip ==
  (pc = "captured" /\ call.out_path /\ \A k \in DOMAIN snapshot : "nl" \notin Range(snapshot[k]))
    => /\ {env_file[i][1] : i \in 1..Len(env_file)} = DOMAIN snapshot
       /\ Len(env_file) = Cardinality(DOMAIN snapshot)
       /\ \A i \in 1..Len(env_file) :
            ParseQuotedValue(env_file[i][2]) = snapshot[env_file[i][1]]

\* C30: the active timeout is 10 minutes until a connection_established has
\* been processed and 15 minutes from then on: it changes only in the step
\* that processes the first connection_established, which also restarts the
\* clock, and never goes back; and in every state of the waiting server a
\* keep_alive, an env_state_requested, a connection_closed or an unknown
\* message leaves the timeout as it is, while a connection_established,
\* the first or a later one, leaves it at 15 minutes and does nothing else
\* than restart the clock.
C30_TimeoutOnlyForward ==
  /\ [](timeout = (IF established_seen THEN re_connect_timeout ELSE pre_connect_timeout))
  /\ [][timeout = re_connect_timeout => timeout' = re_connect_timeout]_vars
  /\ [][timeout' /= timeout
          => (pc = "waiting" /\ ~established_seen /\ established_seen'
              /\ timeout' = re_connect_timeout /\ since_last_time' = 0)]_vars
  /\ [](pc = "waiting" =>
          /\ \A m \in Lines \ {CONNECTION_ESTABLISHED} : Dispatch(WaitInfo, m).timeout = timeout
          /\ Dispatch(WaitInfo, CONNECTION_ESTABLISHED).timeout = re_connect_timeout
          /\ Dispatch(WaitInfo, CONNECTION_ESTABLISHED).since_last_time = 0
          /\ Dispatch(WaitInfo, CONNECTION_ESTABLISHED).waiting_for_close = waiting_for_close)

\* C30's case: a connection_established was processed some time ago, a
\* keep_alive later, time has passed since, and the server is still waiting
\* with the 15 minutes.
C30_Witness ==
  /\ pc = "waiting" /\ established_seen /\ activity_seen
  /\ timeout = re_connect_timeout
  /\ since_last_time > Units(pre_connect_timeout)
  /\ msg = "none" /\ ~waiting_for_close

\* Lines that are neither keep_alive, connection_established nor
\* connection_closed.
QuietLines == {ENV_STATE_REQUESTED, "bogus", ""}

\* A step of the listening server in which no time passes and no wake-up
\* happens: a connection is handled.
ConnectionHandled ==
  pc = "waiting" /\ pc' = "waiting" /\ until_wake' = until_wake

\* C31: handling a connection whose data holds only env_state_requested,
\* unrecognized lines or nothing leaves the time since last activity, the
\* active timeout, the close-pending flag and the stop event as they were; as
\* long as no keep_alive or connection_established has been processed the
\* timeout stays at 10 minutes and the server is not waiting any more once a
\* wake-up has found more than 10 minutes elapsed.
C31_QuietMessagesKeepSession ==
  /\ [][(ConnectionHandled /\ Range(received'.data) \subseteq QuietLines)
          => /\ since_last_time' = since_last_time
             /\ timeout' = timeout
             /\ waiting_for_close' = waiting_for_close
             /\ stop_event' = stop_event
             /\ activity_seen' = activity_seen]_vars
  /\ [](pc = "waiting" /\ ~activity_seen
          => /\ timeout = pre_connect_timeout
             /\ since_last_time <= Units(pre_connect_timeout + TickSeconds))

\* An environment request and nothing else was handled well after the
\* server started listening, and the clock kept running.
C31_Witness ==
  /\ pc = "waiting" /\ received.data = <<ENV_STATE_REQUESTED>> /\ written /= <<>>
  /\ ~activity_seen /\ since_last_time > Units(pre_connect_timeout)

\* C32: when the data of a connection decodes as text, the server writes one
\* response for each env_state_requested line in it and nothing for any other
\* line, so nothing at all when the data has no such line, and the handler
\* closes the connection after the last line.
C32_RepliesOnlyToEnvRequest ==
  [][(ConnectionHandled /\ UNDECODABLE \notin Range(received'.data))
       => /\ Len(written') =
               Len(SelectSeq(received'.data, LAMBDA m : m = ENV_STATE_REQUESTED))
          /\ (ENV_STATE_REQUESTED \notin Range(received'.data) => written' = <<>>)
          /\ writer_closed']_vars

\* An unrecognized line was handled after a client had been active: nothing
\* was written and the connection was closed.
C32_Witness ==
  /\ pc = "waiting" /\ received.data = <<"bogus">> /\ activity_seen
  /\ written = <<>> /\ writer_closed

\* C33: within one label fetch, once the Authorization header has been
\* removed it is never attached again, so the downgrade happens at most once
\* and every request after an unauthenticated one is unauthenticated; a fetch
\* that starts without a token never sends the header.
C33_DowngradeAtMostOnce ==
  /\ [][(pc = "api_loop" /\ ~headers_auth) => (~headers_auth' /\ ~req_auth')]_vars
  /\ [][(pc = "api_loop" /\ requests >= 1 /\ ~req_auth) => ~req_auth']_vars
  /\ [](pc \in {"api_loop", "api_returned"} /\ getenv(environ, "GITHUB_TOKEN") = <<>>
          => ~headers_auth /\ ~req_auth)

\* A fetch that started with a token has made two requests since the header
\* was removed.
C33_Witness ==
  /\ pc \in {"api_loop", "api_returned"}
  /\ getenv(environ, "GITHUB_TOKEN") /= <<>>
  /\ requests >= 3 /\ ~headers_auth /\ ~req_auth /\ cur_attempt >= 3

\* C34: the run attempt number is 1 whenever GITHUB_RUN_ATTEMPT is not an
\* integer, whether it is unset, empty or not a number, and obtaining it
\* never raises: the import never fails, and the number the halt-on-retry test
\* used for a value that int() rejects is 1.
C34_RunAttemptDefaultsToOne ==
  /\ pc /= "import_failed"
  /\ (run_attempt /= 0 /\ int(run_attempt_env).raises /= "none") => run_attempt = 1

RestartsClock(data) ==
  /\ UNDECODABLE \notin Range(data)
  /\ Range(data) \cap {KEEP_ALIVE, CONNECTION_ESTABLISHED} /= {}
  /\ CONNECTION_CLOSED \notin Range(data)

\* C36: the wait ends by timeout only at a wake-up of the loop, when the timer
\* has run out or the stop event is set, with more whole seconds elapsed than
\* the active timeout; a keep_alive or connection_established handled while
\* the timeout has already elapsed restarts the clock and leaves the server
\* waiting, also through the wake-up that follows; and a waiting server's
\* clock is never more than one tick period past the first whole second that
\* exceeds the active timeout.
C36_TimeoutAtWakeUpOnly ==
  /\ [][(msg' = "timeout" /\ msg /= "timeout")
          => /\ pc = "waiting" /\ (until_wake = 0 \/ stop_event)
             /\ TimedOut(since_last_time \div UnitsPerSecond, timeout)
             /\ pc' = "finally"]_vars
  /\ [][(ConnectionHandled /\ received'.late /\ RestartsClock(received'.data))
          => /\ since_last_time' = 0 /\ msg' = "none"
             /\ waiting_for_close' = waiting_for_close]_vars
  /\ [][(pc = "waiting" /\ ~waiting_for_close /\ until_wake = 0
           /\ ~TimedOut(since_last_time \div UnitsPerSecond, timeout))
          => pc' = "waiting"]_vars
  /\ [](pc = "waiting"
          => since_last_time <= Units(timeout + 1) + Units(TickSeconds))

\* A keep_alive arrived before any connection_established, more than 10
\* minutes after the clock started and 30 seconds before the next wake-up;
\* the server has been through that wake-up and is still waiting.
C36_Witness ==
  /\ pc = "waiting" /\ received = [data |-> <<KEEP_ALIVE>>, late |-> TRUE]
  /\ timeout = pre_connect_timeout /\ msg = "none"
  /\ since_last_time = Units(30) /\ until_wake = Units(TickSeconds)

\* C37: the clock of the initial timeout starts when the server starts
\* listening: at that moment no time has elapsed on it, however long ago the
\* module was imported and however long the halt decision took, so that with
\* no message the test of line 305 cannot hold before more than 10 minutes of
\* listening.
C37_ClockStartsAtListen ==
  [][(pc = "start_server" /\ pc' = "waiting")
       => (since_last_time' = 0 /\ timeout' = pre_connect_timeout
           /\ ~waiting_for_close' /\ ~stop_event')]_vars

C39_ClosePendingIsStopEvent ==
  /\ [](waiting_for_close <=> stop_event)
  /\ [][(waiting_for_close => waiting_for_close') /\ (stop_event => stop_event')]_vars
  /\ [](msg /= "none" => pc /= "waiting")
  /\ [][msg /= "none"
          => /\ msg' = msg /\ pc' /= "waiting"
             /\ UNCHANGED <<since_last_time, timeout, waiting_for_close, stop_event>>]_vars

\* connection_closed was processed, then a connection_established before the
\* loop woke: the flag and the event stayed set and the wait ended by close.
C39_Witness ==
  /\ pc = "finally" /\ msg = "closed" /\ waiting_for_close /\ stop_event
  /\ received.data = <<CONNECTION_ESTABLISHED>> /\ since_last_time = 0

\* C40: when _get_labels_via_api returned None and the event payload is an
\* object without pull_request, or whose pull_request has no labels,
\* retrieve_labels returns an empty list, not None; the label check then
\* gives False, should_halt_for_connection does not call sys.exit, and with
\* the wait-after-checks flag unset it returns False.
C40_MissingKeysGiveEmptyList ==
  (pc \in {"retrieved", "decided"} /\ event_payload \in {"no_pull_request", "no_labels"})
    => /\ event_file_read /\ labels = ListOf({})
       /\ pc = "decided"
            => /\ labels_require_halting = "False"
               /\ halt_outcome = IF wait_after_conditions_check THEN "True" ELSE "False"
               /\ ~wait_after_conditions_check
                    => (~wait_regardless /\ explicit_halt_requested = "False")

\* C40's case: three failed requests, a payload whose pull_request has no
\* labels key, a second run attempt, the flag unset, and the decision False.
C40_Witness ==
  /\ pc = "decided" /\ event_payload = "no_labels" /\ requests = total_attempts
  /\ labels = ListOf({}) /\ run_attempt = 2 /\ ~wait_after_conditions_check
  /\ halt_outcome = "False"

====
